---- MODULE Spec2Model ----
(***************************************************************************)
(* Tournament-management backend: the match lifecycle controller           *)
(* (backend/app/services/match.py), its request boundary                   *)
(* (backend/app/api/v1/endpoints/matches.py) and the registration          *)
(* admission controller (backend/app/services/tournament.py,               *)
(* backend/app/services/registration.py).                                  *)
(*                                                                         *)
(* The persistent store is modelled as one function per table, from the    *)
(* primary keys of the rows that exist to the rows.  An Optional[...]      *)
(* return value is a set with at most one element: {} is None.             *)
(***************************************************************************)
EXTENDS Integers, Sequences, FiniteSets, TLC

\* Python None / SQL NULL in a string-valued column or argument.
NONE == "NONE"

\* The empty string: a str argument that is present but falsy.
EMPTY == ""

\* Rows of the players table (player registration itself is not modelled).
Players == {"p1", "p2", "p3"}

\* Primary keys the uuid4 default can hand out to new rows.
MatchIds == {"m1"}
TournamentIds == {"t1", "t2"}

\* The clock of func.now() runs from 1 to MaxTime.
MaxTime == 2

\* A DateTime column that is NULL.
NoTime == 0

\* max_participants runs from 0 to MaxParticipants.
MaxParticipants == 2

MatchStatus == {"SCHEDULED", "IN_PROGRESS", "COMPLETED", "FORFEIT", "CANCELLED"}

TournamentStatus ==
    {"DRAFT", "REGISTRATION_OPEN", "REGISTRATION_CLOSED", "IN_PROGRESS",
     "COMPLETED", "CANCELLED"}

RegistrationStatus == {"PENDING", "CONFIRMED", "WAITLISTED", "CANCELLED", "REJECTED"}

VARIABLES
    tournaments,    \* table tournaments: id -> row
    matches,        \* table matches: id -> row
    registrations,  \* table registrations: id -> row
    now,            \* the value func.now() yields
    last,           \* the latest call and what it returned
    decided,        \* history: the matches whose winner_id a complete or forfeit has set
    inflight        \* the requests being handled at the same time: request -> its position

vars == <<tournaments, matches, registrations, now, last, decided, inflight>>

\* Python truthiness of an Optional[str].
Truthy(x) == x # NONE /\ x # EMPTY

\* The element of an Optional that is not None.
The(opt) == CHOOSE x \in opt : TRUE

\* A bool a service returns, as the value handed back.
Bool(b) == {[bool |-> b]}

\* What a service call hands back: the table after it and its return value.
Result(db, ret) == [db |-> db, ret |-> ret]

\* The record of a call in `last`: the operation, the row it names, the player it
\* was given (service calls), and what came back: the returned row, and for a
\* request the HTTP status code and the detail of the HTTPException.
Call(op, id, arg, ret, code, detail) ==
    [op |-> op, id |-> id, arg |-> arg, ret |-> ret, code |-> code, detail |-> detail]

-----------------------------------------------------------------------------
(* MatchService *)

\* MatchCreate payloads: player2_id is optional (a bye) and nothing keeps it
\* from naming player1 again.  Players are interchangeable, so player1 is "p1".
MatchCreate ==
    [tournament_id : {"t1"}, player1_id : {"p1"}, player2_id : {"p1", "p2", NONE}]

\* Match(...) with the column defaults of the model.
MatchService_create(db, id, match_data) ==
    LET match == [tournament_id |-> match_data.tournament_id,
                  player1_id    |-> match_data.player1_id,
                  player2_id    |-> match_data.player2_id,
                  status        |-> "SCHEDULED",
                  started_at    |-> NoTime,
                  completed_at  |-> NoTime,
                  winner_id     |-> NONE,
                  forfeit_by    |-> NONE]
    IN  Result([k \in DOMAIN db \cup {id} |-> IF k = id THEN match ELSE db[k]], {match})

MatchService_get_by_id(db, match_id) ==
    IF match_id \in DOMAIN db THEN {db[match_id]} ELSE {}

\* The values a field of MatchUpdate can carry when it is present (null included).
MatchUpdateValues(field) ==
    CASE field = "player2_id" -> Players \cup {NONE}
      [] field = "status"     -> MatchStatus \cup {NONE}
      [] field = "winner_id"  -> Players \cup {NONE}

MatchUpdateFields == {"player2_id", "status", "winner_id"}

\* MatchUpdate payloads as dict(exclude_unset=True) sees them: the fields that
\* were sent, each with its value.  Requests that set one field or none: a
\* request that sets several has the effect of these in a row.
MatchUpdate ==
    {<<>>} \cup
    UNION {[{f} -> MatchUpdateValues(f)] : f \in MatchUpdateFields}

\* Mutant: the payload is read without exclude_unset, so that a field the
\* request did not send is written as None.
MatchService_update_unset(db, match_id, match_data) ==
    LET got == MatchService_get_by_id(db, match_id) IN
    IF got = {} THEN Result(db, {})
    ELSE LET match == The(got)
             upd == [f \in DOMAIN match |->
                        IF f \in DOMAIN match_data THEN match_data[f]
                        ELSE IF f \in MatchUpdateFields THEN NONE ELSE match[f]]
         IN  Result([db EXCEPT ![match_id] = upd], {upd})

MatchService_update(db, match_id, match_data) ==
    LET got == MatchService_get_by_id(db, match_id) IN
    IF got = {} THEN Result(db, {})
    ELSE LET match == The(got)
             upd == [f \in DOMAIN match |->
                        IF f \in DOMAIN match_data THEN match_data[f] ELSE match[f]]
         IN  Result([db EXCEPT ![match_id] = upd], {upd})

\* Mutant: a start is accepted again once the match is in progress.
MatchService_start_match_restart(db, match_id, t) ==
    LET got == MatchService_get_by_id(db, match_id) IN
    IF got = {} THEN Result(db, {})
    ELSE LET match == The(got) IN
         IF match.status \notin {"SCHEDULED", "IN_PROGRESS"} THEN Result(db, {})
         ELSE LET upd == [match EXCEPT !.status = "IN_PROGRESS", !.started_at = t]
              IN  Result([db EXCEPT ![match_id] = upd], {upd})

\* Mutant: started_at is stamped and committed before the status is looked at.
MatchService_start_match_stamp(db, match_id, t) ==
    LET got == MatchService_get_by_id(db, match_id) IN
    IF got = {} THEN Result(db, {})
    ELSE LET match == [The(got) EXCEPT !.started_at = t] IN
         IF match.status # "SCHEDULED"
         THEN Result([db EXCEPT ![match_id] = match], {})
         ELSE LET upd == [match EXCEPT !.status = "IN_PROGRESS"]
              IN  Result([db EXCEPT ![match_id] = upd], {upd})

MatchService_start_match(db, match_id, t) ==
    LET got == MatchService_get_by_id(db, match_id) IN
    IF got = {} THEN Result(db, {})
    ELSE LET match == The(got) IN
         IF match.status # "SCHEDULED" THEN Result(db, {})
         ELSE LET upd == [match EXCEPT !.status = "IN_PROGRESS", !.started_at = t]
              IN  Result([db EXCEPT ![match_id] = upd], {upd})

\* Mutant: the winner is not stored.
MatchService_complete_match_keep(db, match_id, winner_id, t) ==
    LET got == MatchService_get_by_id(db, match_id) IN
    IF got = {} THEN Result(db, {})
    ELSE LET match == The(got) IN
         IF match.status # "IN_PROGRESS" THEN Result(db, {})
         ELSE LET upd == [match EXCEPT !.status = "COMPLETED", !.completed_at = t]
              IN  Result([db EXCEPT ![match_id] = upd], {upd})

\* Mutant: the status is not checked.
MatchService_complete_match_any(db, match_id, winner_id, t) ==
    LET got == MatchService_get_by_id(db, match_id) IN
    IF got = {} THEN Result(db, {})
    ELSE LET upd == [The(got) EXCEPT
                        !.status = "COMPLETED",
                        !.completed_at = t,
                        !.winner_id = IF Truthy(winner_id) THEN winner_id ELSE @]
         IN  Result([db EXCEPT ![match_id] = upd], {upd})

\* Mutant: the winner has to be one of the two players of the match.
MatchService_complete_match_participant(db, match_id, winner_id, t) ==
    LET got == MatchService_get_by_id(db, match_id) IN
    IF got = {} THEN Result(db, {})
    ELSE LET match == The(got) IN
         IF match.status # "IN_PROGRESS" THEN Result(db, {})
         ELSE IF winner_id \notin {match.player1_id, match.player2_id}
         THEN Result(db, {})
         ELSE LET upd == [match EXCEPT
                            !.status = "COMPLETED",
                            !.completed_at = t,
                            !.winner_id = IF Truthy(winner_id) THEN winner_id ELSE @]
              IN  Result([db EXCEPT ![match_id] = upd], {upd})

MatchService_complete_match(db, match_id, winner_id, t) ==
    LET got == MatchService_get_by_id(db, match_id) IN
    IF got = {} THEN Result(db, {})
    ELSE LET match == The(got) IN
         IF match.status # "IN_PROGRESS" THEN Result(db, {})
         ELSE LET upd == [match EXCEPT
                            !.status = "COMPLETED",
                            !.completed_at = t,
                            !.winner_id = IF Truthy(winner_id) THEN winner_id ELSE @]
              IN  Result([db EXCEPT ![match_id] = upd], {upd})

\* The assignments of forfeit_match, after its status check.
\* Mutant: the forfeit does not stamp completed_at.
ForfeitAssignments_unstamped(match, forfeit_player_id, t) ==
    [match EXCEPT
        !.status = "FORFEIT",
        !.forfeit_by = forfeit_player_id,
        !.winner_id = IF forfeit_player_id = match.player1_id
                      THEN match.player2_id
                      ELSE IF forfeit_player_id = match.player2_id
                           THEN match.player1_id
                           ELSE @]

ForfeitAssignments(match, forfeit_player_id, t) ==
    [match EXCEPT
        !.status = "FORFEIT",
        !.forfeit_by = forfeit_player_id,
        !.completed_at = t,
        !.winner_id = IF forfeit_player_id = match.player1_id
                      THEN match.player2_id
                      ELSE IF forfeit_player_id = match.player2_id
                           THEN match.player1_id
                           ELSE @]

\* Mutant: only a match in progress can be forfeited.
MatchService_forfeit_match_started(db, match_id, forfeit_player_id, t) ==
    LET got == MatchService_get_by_id(db, match_id) IN
    IF got = {} THEN Result(db, {})
    ELSE LET match == The(got) IN
         IF match.status # "IN_PROGRESS" THEN Result(db, {})
         ELSE LET upd == ForfeitAssignments(match, forfeit_player_id, t)
              IN  Result([db EXCEPT ![match_id] = upd], {upd})

\* Mutant: the status is not checked.
MatchService_forfeit_match_any(db, match_id, forfeit_player_id, t) ==
    LET got == MatchService_get_by_id(db, match_id) IN
    IF got = {} THEN Result(db, {})
    ELSE LET upd == ForfeitAssignments(The(got), forfeit_player_id, t)
         IN  Result([db EXCEPT ![match_id] = upd], {upd})

\* Mutant: the second branch is an else, so a forfeit by a player who is in
\* neither slot makes player1 the winner.
MatchService_forfeit_match_else(db, match_id, forfeit_player_id, t) ==
    LET got == MatchService_get_by_id(db, match_id) IN
    IF got = {} THEN Result(db, {})
    ELSE LET match == The(got) IN
         IF match.status \notin {"SCHEDULED", "IN_PROGRESS"} THEN Result(db, {})
         ELSE LET upd == [ForfeitAssignments(match, forfeit_player_id, t) EXCEPT
                            !.winner_id = IF forfeit_player_id = match.player1_id
                                          THEN match.player2_id
                                          ELSE match.player1_id]
              IN  Result([db EXCEPT ![match_id] = upd], {upd})

\* Mutant: a forfeit by a player who is in neither slot clears the winner.
MatchService_forfeit_match_clear(db, match_id, forfeit_player_id, t) ==
    LET got == MatchService_get_by_id(db, match_id) IN
    IF got = {} THEN Result(db, {})
    ELSE LET match == The(got) IN
         IF match.status \notin {"SCHEDULED", "IN_PROGRESS"} THEN Result(db, {})
         ELSE LET upd == [ForfeitAssignments(match, forfeit_player_id, t) EXCEPT
                            !.winner_id = IF forfeit_player_id = match.player1_id
                                          THEN match.player2_id
                                          ELSE IF forfeit_player_id = match.player2_id
                                               THEN match.player1_id
                                               ELSE NONE]
              IN  Result([db EXCEPT ![match_id] = upd], {upd})

MatchService_forfeit_match(db, match_id, forfeit_player_id, t) ==
    LET got == MatchService_get_by_id(db, match_id) IN
    IF got = {} THEN Result(db, {})
    ELSE LET match == The(got) IN
         IF match.status \notin {"SCHEDULED", "IN_PROGRESS"} THEN Result(db, {})
         ELSE LET upd == ForfeitAssignments(match, forfeit_player_id, t)
              IN  Result([db EXCEPT ![match_id] = upd], {upd})

-----------------------------------------------------------------------------
(* TournamentService *)

\* TournamentCreate payloads (the fields the controllers read).
TournamentCreate ==
    [max_participants : 0..MaxParticipants, is_public : BOOLEAN,
     allow_registration : BOOLEAN, registration_deadline : {NoTime} \cup 1..MaxTime]

\* The payload of a public tournament for one participant that takes registrations.
SmallTournament ==
    [max_participants |-> 1, is_public |-> TRUE, allow_registration |-> TRUE,
     registration_deadline |-> NoTime]

TournamentService_create(db, id, tournament_data, organizer_id) ==
    LET tournament == [organizer_id       |-> organizer_id,
                       status             |-> "DRAFT",
                       max_participants   |-> tournament_data.max_participants,
                       is_public          |-> tournament_data.is_public,
                       allow_registration |-> tournament_data.allow_registration,
                       registration_deadline |-> tournament_data.registration_deadline]
    IN  Result([k \in DOMAIN db \cup {id} |-> IF k = id THEN tournament ELSE db[k]],
               {tournament})

TournamentService_get_by_id(db, tournament_id) ==
    IF tournament_id \in DOMAIN db THEN {db[tournament_id]} ELSE {}

\* The values a field of TournamentUpdate can carry when it is present.
TournamentUpdateValues(field) ==
    CASE field = "status"                -> TournamentStatus
      [] field = "max_participants"      -> 0..MaxParticipants
      [] field = "is_public"             -> BOOLEAN
      [] field = "allow_registration"    -> BOOLEAN
      [] field = "registration_deadline" -> {NoTime} \cup 1..MaxTime

TournamentUpdateFields ==
    {"status", "max_participants", "is_public", "allow_registration",
     "registration_deadline"}

\* TournamentUpdate payloads as dict(exclude_unset=True) sees them: requests
\* that set one field or none.
TournamentUpdate ==
    {<<>>} \cup
    UNION {[{f} -> TournamentUpdateValues(f)] : f \in TournamentUpdateFields}

TournamentService_update(db, tournament_id, tournament_data) ==
    LET got == TournamentService_get_by_id(db, tournament_id) IN
    IF got = {} THEN Result(db, {})
    ELSE LET tournament == The(got)
             upd == [f \in DOMAIN tournament |->
                        IF f \in DOMAIN tournament_data
                        THEN tournament_data[f] ELSE tournament[f]]
         IN  Result([db EXCEPT ![tournament_id] = upd], {upd})

\* Mutant: the delete removes the row.
TournamentService_delete_hard(db, tournament_id) ==
    IF TournamentService_get_by_id(db, tournament_id) = {} THEN Result(db, Bool(FALSE))
    ELSE Result([k \in DOMAIN db \ {tournament_id} |-> db[k]], Bool(TRUE))

TournamentService_delete(db, tournament_id) ==
    IF TournamentService_get_by_id(db, tournament_id) = {} THEN Result(db, Bool(FALSE))
    ELSE Result([db EXCEPT ![tournament_id].status = "CANCELLED"], Bool(TRUE))

\* The number of CONFIRMED registrations of the tournament (len of the rows the
\* query selects).
TournamentService_get_registration_count_all(rdb, tournament_id) ==
    Cardinality({k \in DOMAIN rdb : rdb[k].status = "CONFIRMED"})

\* Mutant: PENDING registrations take a place too.
TournamentService_get_registration_count_pending(rdb, tournament_id) ==
    Cardinality({k \in DOMAIN rdb :
                    /\ rdb[k].tournament_id = tournament_id
                    /\ rdb[k].status \in {"PENDING", "CONFIRMED"}})

TournamentService_get_registration_count(rdb, tournament_id) ==
    Cardinality({k \in DOMAIN rdb :
                    /\ rdb[k].tournament_id = tournament_id
                    /\ rdb[k].status = "CONFIRMED"})

TournamentService_can_register_over(tdb, rdb, tournament_id) ==
    LET tournament == TournamentService_get_by_id(tdb, tournament_id) IN
    IF tournament = {} THEN FALSE
    ELSE IF ~The(tournament).allow_registration THEN FALSE
    ELSE IF The(tournament).status \notin {"DRAFT", "REGISTRATION_OPEN"} THEN FALSE
    ELSE IF TournamentService_get_registration_count(rdb, tournament_id)
                > The(tournament).max_participants
    THEN FALSE
    ELSE TRUE

\* Mutant: a tournament that has a registration_deadline is closed.
TournamentService_can_register_deadline(tdb, rdb, tournament_id) ==
    LET tournament == TournamentService_get_by_id(tdb, tournament_id) IN
    IF tournament = {} THEN FALSE
    ELSE IF ~The(tournament).allow_registration THEN FALSE
    ELSE IF The(tournament).status \notin {"DRAFT", "REGISTRATION_OPEN"} THEN FALSE
    ELSE IF The(tournament).registration_deadline # NoTime THEN FALSE
    ELSE IF TournamentService_get_registration_count(rdb, tournament_id)
                >= The(tournament).max_participants
    THEN FALSE
    ELSE TRUE

TournamentService_can_register(tdb, rdb, tournament_id) ==
    LET tournament == TournamentService_get_by_id(tdb, tournament_id) IN
    IF tournament = {} THEN FALSE
    ELSE IF ~The(tournament).allow_registration THEN FALSE
    ELSE IF The(tournament).status \notin {"DRAFT", "REGISTRATION_OPEN"} THEN FALSE
    ELSE IF TournamentService_get_registration_count(rdb, tournament_id)
                >= The(tournament).max_participants
    THEN FALSE
    ELSE TRUE

-----------------------------------------------------------------------------
(* Registration rows *)

\* The primary key of the n-th registration row of a player for a tournament
\* (uuid4 values carry no information; this one names the row).
RegistrationId(player_id, tournament_id, n) == <<player_id, tournament_id, n>>

\* Registration(...) with the column defaults of the model.
RegistrationRow(player_id, tournament_id, status, t) ==
    [player_id         |-> player_id,
     tournament_id     |-> tournament_id,
     status            |-> status,
     registration_date |-> t,
     confirmation_date |-> NoTime,
     payment_status    |-> "pending"]

-----------------------------------------------------------------------------
(* RegistrationService *)

\* The rows of the player for the tournament.
RegistrationsOf(db, player_id, tournament_id) ==
    {k \in DOMAIN db :
        db[k].player_id = player_id /\ db[k].tournament_id = tournament_id}

\* RegistrationCreate payloads (notes are not modelled).
RegistrationCreate == [tournament_id : TournamentIds]

\* Mutant: the table has no unique constraint.
RegistrationService_create_unconstrained(db, registration_data, player_id, t) ==
    LET tournament_id == registration_data.tournament_id
        same == RegistrationsOf(db, player_id, tournament_id)
        id == RegistrationId(player_id, tournament_id, Cardinality(same))
        registration == RegistrationRow(player_id, tournament_id, "PENDING", t)
    IN  Result([k \in DOMAIN db \cup {id} |->
                    IF k = id THEN registration ELSE db[k]], {registration})

\* db.add + commit: UniqueConstraint("player_id", "tournament_id") fails the
\* commit with an IntegrityError when the player has a row for the tournament;
\* nothing is written then and there is no return value.
RegistrationService_create(db, registration_data, player_id, t) ==
    LET tournament_id == registration_data.tournament_id
        same == RegistrationsOf(db, player_id, tournament_id)
        id == RegistrationId(player_id, tournament_id, Cardinality(same))
        registration == RegistrationRow(player_id, tournament_id, "PENDING", t)
    IN  IF same # {} THEN Result(db, {})
        ELSE Result([k \in DOMAIN db \cup {id} |->
                        IF k = id THEN registration ELSE db[k]], {registration})

RegistrationService_get_by_id(db, registration_id) ==
    IF registration_id \in DOMAIN db THEN {db[registration_id]} ELSE {}

\* scalar_one_or_none over the rows of the pair, of which the unique constraint
\* leaves at most one.
RegistrationService_get_by_player_and_tournament(db, player_id, tournament_id) ==
    {db[k] : k \in RegistrationsOf(db, player_id, tournament_id)}

\* RegistrationUpdate payloads as dict(exclude_unset=True) sees them: requests
\* that set the status or nothing.
RegistrationUpdate == {<<>>} \cup [{"status"} -> RegistrationStatus]

RegistrationService_update(db, registration_id, registration_data) ==
    LET got == RegistrationService_get_by_id(db, registration_id) IN
    IF got = {} THEN Result(db, {})
    ELSE LET registration == The(got)
             upd == [f \in DOMAIN registration |->
                        IF f \in DOMAIN registration_data
                        THEN registration_data[f] ELSE registration[f]]
         IN  Result([db EXCEPT ![registration_id] = upd], {upd})

\* Mutant: a registration is confirmed from whatever status.
RegistrationService_confirm_any(db, registration_id, t) ==
    LET got == RegistrationService_get_by_id(db, registration_id) IN
    IF got = {} THEN Result(db, {})
    ELSE LET upd == [The(got) EXCEPT !.status = "CONFIRMED", !.confirmation_date = t]
         IN  Result([db EXCEPT ![registration_id] = upd], {upd})

RegistrationService_confirm(db, registration_id, t) ==
    LET got == RegistrationService_get_by_id(db, registration_id) IN
    IF got = {} THEN Result(db, {})
    ELSE IF The(got).status # "PENDING" THEN Result(db, {})
    ELSE LET upd == [The(got) EXCEPT !.status = "CONFIRMED", !.confirmation_date = t]
         IN  Result([db EXCEPT ![registration_id] = upd], {upd})

\* Mutant: a registration that is REJECTED or CANCELLED cannot be cancelled.
RegistrationService_cancel_active(db, registration_id) ==
    LET got == RegistrationService_get_by_id(db, registration_id) IN
    IF got = {} THEN Result(db, {})
    ELSE IF The(got).status \in {"REJECTED", "CANCELLED"} THEN Result(db, {})
    ELSE LET upd == [The(got) EXCEPT !.status = "CANCELLED"]
         IN  Result([db EXCEPT ![registration_id] = upd], {upd})

RegistrationService_cancel(db, registration_id) ==
    LET got == RegistrationService_get_by_id(db, registration_id) IN
    IF got = {} THEN Result(db, {})
    ELSE LET upd == [The(got) EXCEPT !.status = "CANCELLED"]
         IN  Result([db EXCEPT ![registration_id] = upd], {upd})

-----------------------------------------------------------------------------
(* Calls of the services *)

Init ==
    /\ tournaments = <<>>
    /\ matches = <<>>
    /\ registrations = <<>>
    /\ now = 1
    /\ last = Call("init", NONE, NONE, {}, 0, NONE)
    /\ decided = {}
    /\ inflight = <<>>

\* Time passes between calls.
Tick ==
    /\ now < MaxTime
    /\ now' = now + 1
    /\ UNCHANGED <<tournaments, matches, registrations, last, decided, inflight>>

CreateTournament(id, organizer_id, tournament_data) ==
    LET r == TournamentService_create(tournaments, id, tournament_data, organizer_id) IN
    /\ id \notin DOMAIN tournaments
    /\ tournaments' = r.db
    /\ last' = Call("TournamentService.create", id, NONE, r.ret, 0, NONE)
    /\ UNCHANGED <<matches, registrations, now, decided, inflight>>

\* The foreign key of matches.tournament_id needs the tournament row.
CreateMatch(id, match_data) ==
    LET r == MatchService_create(matches, id, match_data) IN
    /\ id \notin DOMAIN matches
    /\ match_data.tournament_id \in DOMAIN tournaments
    /\ matches' = r.db
    /\ last' = Call("MatchService.create", id, NONE, r.ret, 0, NONE)
    /\ UNCHANGED <<tournaments, registrations, now, decided, inflight>>

UpdateMatch(match_id, match_data) ==
    LET r == MatchService_update(matches, match_id, match_data) IN
    /\ matches' = r.db
    /\ last' = Call("MatchService.update", match_id, NONE, r.ret, 0, NONE)
    /\ UNCHANGED <<tournaments, registrations, now, decided, inflight>>

StartMatch(match_id) ==
    LET r == MatchService_start_match(matches, match_id, now) IN
    /\ matches' = r.db
    /\ last' = Call("MatchService.start_match", match_id, NONE, r.ret, 0, NONE)
    /\ UNCHANGED <<tournaments, registrations, now, decided, inflight>>

\* complete_match wrote winner_id: it succeeded and had a winner to write.
CompleteMatch(match_id, winner_id) ==
    LET r == MatchService_complete_match(matches, match_id, winner_id, now) IN
    /\ matches' = r.db
    /\ last' = Call("MatchService.complete_match", match_id, winner_id, r.ret, 0, NONE)
    /\ decided' = IF r.ret # {} /\ Truthy(winner_id)
                  THEN decided \cup {match_id} ELSE decided
    /\ UNCHANGED <<tournaments, registrations, now, inflight>>

\* forfeit_match wrote winner_id: it succeeded, the forfeiting player was a
\* participant and the other participant is a player.
ForfeitMatch(match_id, forfeit_player_id) ==
    LET r == MatchService_forfeit_match(matches, match_id, forfeit_player_id, now) IN
    /\ matches' = r.db
    /\ last' = Call("MatchService.forfeit_match", match_id, forfeit_player_id,
                    r.ret, 0, NONE)
    /\ decided' = IF /\ r.ret # {}
                     /\ forfeit_player_id \in
                            {matches[match_id].player1_id, matches[match_id].player2_id}
                     /\ The(r.ret).winner_id # NONE
                  THEN decided \cup {match_id} ELSE decided
    /\ UNCHANGED <<tournaments, registrations, now, inflight>>

\* update_match_status is the only caller of complete_match and of forfeit_match
\* and hands them a winner_id, a forfeit_player_id that is not empty.
Next ==
    \/ Tick
    \/ CreateTournament("t1", "p3", SmallTournament)
    \/ \E m \in MatchIds, d \in MatchCreate : CreateMatch(m, d)
    \/ \E m \in MatchIds, d \in MatchUpdate : UpdateMatch(m, d)
    \/ \E m \in MatchIds : StartMatch(m)
    \/ \E m \in MatchIds, w \in Players : CompleteMatch(m, w)
    \/ \E m \in MatchIds, p \in Players : ForfeitMatch(m, p)

Spec == Init /\ [][Next]_vars

-----------------------------------------------------------------------------
(* The request boundary: api/v1/endpoints/matches.py, tournaments.py *)

\* What an endpoint hands back: the table after it, the HTTP status code, the
\* detail of the HTTPException it raised (None when it returned) and the row of
\* the response body.
Response(db, code, detail, ret) == [db |-> db, code |-> code, detail |-> detail, ret |-> ret]

\* A service result returned as the response body.
Ok(r) == Response(r.db, 200, NONE, r.ret)

\* raise HTTPException(status_code, detail): nothing is written.
Raise(db, code, detail) == Response(db, code, detail, {})

\* MatchStatusUpdate payloads: an action, and the field that action reads, which
\* may be missing (None) or empty.
MatchStatusUpdate ==
    {[action |-> "start", winner_id |-> NONE, forfeit_player_id |-> NONE],
     [action |-> "pause", winner_id |-> NONE, forfeit_player_id |-> NONE]}
    \cup {[action |-> "complete", winner_id |-> w, forfeit_player_id |-> NONE] :
            w \in Players \cup {NONE, EMPTY}}
    \cup {[action |-> "forfeit", winner_id |-> NONE, forfeit_player_id |-> f] :
            f \in Players \cup {NONE, EMPTY}}

create_tournament(tdb, id, tournament_data, current_user) ==
    Ok(TournamentService_create(tdb, id, tournament_data, current_user))

create_match(mdb, tdb, id, match_data, current_user) ==
    LET tournament == TournamentService_get_by_id(tdb, match_data.tournament_id) IN
    IF tournament = {} THEN Raise(mdb, 404, "Tournament not found")
    ELSE IF The(tournament).organizer_id # current_user
    THEN Raise(mdb, 403, "Only tournament organizers can create matches")
    ELSE Ok(MatchService_create(mdb, id, match_data))

update_match(mdb, tdb, match_id, match_data, current_user) ==
    LET got == MatchService_get_by_id(mdb, match_id) IN
    IF got = {} THEN Raise(mdb, 404, "Match not found")
    ELSE LET tournament == TournamentService_get_by_id(tdb, The(got).tournament_id) IN
         IF tournament = {} \/ The(tournament).organizer_id # current_user
         THEN Raise(mdb, 403, "Only tournament organizers can update matches")
         ELSE Ok(MatchService_update(mdb, match_id, match_data))

\* Mutant: a transition that was not applicable is answered as not authorized.
Updated_forbidden(r) ==
    IF r.ret = {} THEN Raise(r.db, 403, "Could not update match status") ELSE Ok(r)

\* `if not updated_match: raise HTTPException(400)`, else the match.
Updated(r) ==
    IF r.ret = {} THEN Raise(r.db, 400, "Could not update match status") ELSE Ok(r)

\* Mutant: a player of the match may forfeit for the other player.
update_match_status_anyone(mdb, tdb, match_id, status_data, current_user, t) ==
    LET got == MatchService_get_by_id(mdb, match_id) IN
    IF got = {} THEN Raise(mdb, 404, "Match not found")
    ELSE LET match == The(got)
             tournament == TournamentService_get_by_id(tdb, match.tournament_id)
             is_organizer ==
                tournament # {} /\ The(tournament).organizer_id = current_user
             is_player == current_user \in {match.player1_id, match.player2_id}
         IN  IF ~(is_organizer \/ is_player)
             THEN Raise(mdb, 403, "Not authorized to update this match")
             ELSE IF status_data.action = "start"
             THEN Updated(MatchService_start_match(mdb, match_id, t))
             ELSE IF status_data.action = "complete"
             THEN IF ~Truthy(status_data.winner_id)
                  THEN Raise(mdb, 400, "Winner ID required to complete match")
                  ELSE Updated(MatchService_complete_match(
                                mdb, match_id, status_data.winner_id, t))
             ELSE IF status_data.action = "forfeit"
             THEN IF ~Truthy(status_data.forfeit_player_id)
                  THEN Raise(mdb, 400, "Forfeit player ID required")
                  ELSE Updated(MatchService_forfeit_match(
                                mdb, match_id, status_data.forfeit_player_id, t))
             ELSE Raise(mdb, 400, "Invalid action. Must be 'start', 'complete', or 'forfeit'")

\* Mutant: the caller need not be the organizer or a player of the match.
update_match_status_open(mdb, tdb, match_id, status_data, current_user, t) ==
    LET got == MatchService_get_by_id(mdb, match_id) IN
    IF got = {} THEN Raise(mdb, 404, "Match not found")
    ELSE LET match == The(got)
             tournament == TournamentService_get_by_id(tdb, match.tournament_id)
             is_organizer ==
                tournament # {} /\ The(tournament).organizer_id = current_user
             is_player == current_user \in {match.player1_id, match.player2_id}
         IN  IF status_data.action = "start"
             THEN Updated(MatchService_start_match(mdb, match_id, t))
             ELSE IF status_data.action = "complete"
             THEN IF ~Truthy(status_data.winner_id)
                  THEN Raise(mdb, 400, "Winner ID required to complete match")
                  ELSE Updated(MatchService_complete_match(
                                mdb, match_id, status_data.winner_id, t))
             ELSE IF status_data.action = "forfeit"
             THEN IF ~Truthy(status_data.forfeit_player_id)
                  THEN Raise(mdb, 400, "Forfeit player ID required")
                  ELSE IF ~is_organizer /\ status_data.forfeit_player_id # current_user
                  THEN Raise(mdb, 403, "Can only forfeit your own match")
                  ELSE Updated(MatchService_forfeit_match(
                                mdb, match_id, status_data.forfeit_player_id, t))
             ELSE Raise(mdb, 400, "Invalid action. Must be 'start', 'complete', or 'forfeit'")

\* Mutant: a complete request is passed on without looking for its winner_id.
update_match_status_lenient(mdb, tdb, match_id, status_data, current_user, t) ==
    LET got == MatchService_get_by_id(mdb, match_id) IN
    IF got = {} THEN Raise(mdb, 404, "Match not found")
    ELSE LET match == The(got)
             tournament == TournamentService_get_by_id(tdb, match.tournament_id)
             is_organizer ==
                tournament # {} /\ The(tournament).organizer_id = current_user
             is_player == current_user \in {match.player1_id, match.player2_id}
         IN  IF ~(is_organizer \/ is_player)
             THEN Raise(mdb, 403, "Not authorized to update this match")
             ELSE IF status_data.action = "start"
             THEN Updated(MatchService_start_match(mdb, match_id, t))
             ELSE IF status_data.action = "complete"
             THEN Updated(MatchService_complete_match(
                                mdb, match_id, status_data.winner_id, t))
             ELSE IF status_data.action = "forfeit"
             THEN IF ~Truthy(status_data.forfeit_player_id)
                  THEN Raise(mdb, 400, "Forfeit player ID required")
                  ELSE IF ~is_organizer /\ status_data.forfeit_player_id # current_user
                  THEN Raise(mdb, 403, "Can only forfeit your own match")
                  ELSE Updated(MatchService_forfeit_match(
                                mdb, match_id, status_data.forfeit_player_id, t))
             ELSE Raise(mdb, 400, "Invalid action. Must be 'start', 'complete', or 'forfeit'")

update_match_status(mdb, tdb, match_id, status_data, current_user, t) ==
    LET got == MatchService_get_by_id(mdb, match_id) IN
    IF got = {} THEN Raise(mdb, 404, "Match not found")
    ELSE LET match == The(got)
             tournament == TournamentService_get_by_id(tdb, match.tournament_id)
             is_organizer ==
                tournament # {} /\ The(tournament).organizer_id = current_user
             is_player == current_user \in {match.player1_id, match.player2_id}
         IN  IF ~(is_organizer \/ is_player)
             THEN Raise(mdb, 403, "Not authorized to update this match")
             ELSE IF status_data.action = "start"
             THEN Updated(MatchService_start_match(mdb, match_id, t))
             ELSE IF status_data.action = "complete"
             THEN IF ~Truthy(status_data.winner_id)
                  THEN Raise(mdb, 400, "Winner ID required to complete match")
                  ELSE Updated(MatchService_complete_match(
                                mdb, match_id, status_data.winner_id, t))
             ELSE IF status_data.action = "forfeit"
             THEN IF ~Truthy(status_data.forfeit_player_id)
                  THEN Raise(mdb, 400, "Forfeit player ID required")
                  ELSE IF ~is_organizer /\ status_data.forfeit_player_id # current_user
                  THEN Raise(mdb, 403, "Can only forfeit your own match")
                  ELSE Updated(MatchService_forfeit_match(
                                mdb, match_id, status_data.forfeit_player_id, t))
             ELSE Raise(mdb, 400, "Invalid action. Must be 'start', 'complete', or 'forfeit'")

update_tournament(tdb, tournament_id, tournament_data, current_user) ==
    LET tournament == TournamentService_get_by_id(tdb, tournament_id) IN
    IF tournament = {} THEN Raise(tdb, 404, "Tournament not found")
    ELSE IF The(tournament).organizer_id # current_user
    THEN Raise(tdb, 403, "Only tournament organizers can update tournaments")
    ELSE Ok(TournamentService_update(tdb, tournament_id, tournament_data))

delete_tournament(tdb, tournament_id, current_user) ==
    LET tournament == TournamentService_get_by_id(tdb, tournament_id) IN
    IF tournament = {} THEN Raise(tdb, 404, "Tournament not found")
    ELSE IF The(tournament).organizer_id # current_user
    THEN Raise(tdb, 403, "Only tournament organizers can cancel tournaments")
    ELSE LET r == TournamentService_delete(tdb, tournament_id) IN
         IF r.ret = Bool(FALSE) THEN Raise(r.db, 400, "Could not cancel tournament")
         ELSE Response(r.db, 200, NONE, {})

\* Mutant: the request does not ask can_register.
register_for_tournament_unchecked(tdb, rdb, tournament_id, registration_data, current_user, t) ==
    IF TournamentService_get_by_id(tdb, tournament_id) = {}
    THEN Raise(rdb, 404, "Tournament not found")
    ELSE IF RegistrationService_get_by_player_and_tournament(
                rdb, current_user, tournament_id) # {}
    THEN Raise(rdb, 400, "Already registered for this tournament")
    ELSE LET data == [registration_data EXCEPT !.tournament_id = tournament_id]
             r == RegistrationService_create(rdb, data, current_user, t)
         IN  IF r.ret = {} THEN Raise(rdb, 500, "IntegrityError") ELSE Ok(r)

\* Mutant: a CANCELLED registration does not count as an existing one.
register_for_tournament_again(tdb, rdb, tournament_id, registration_data, current_user, t) ==
    IF TournamentService_get_by_id(tdb, tournament_id) = {}
    THEN Raise(rdb, 404, "Tournament not found")
    ELSE IF ~TournamentService_can_register(tdb, rdb, tournament_id)
    THEN Raise(rdb, 400, "Tournament is not open for registration or is full")
    ELSE IF \E x \in RegistrationService_get_by_player_and_tournament(
                        rdb, current_user, tournament_id) : x.status # "CANCELLED"
    THEN Raise(rdb, 400, "Already registered for this tournament")
    ELSE LET data == [registration_data EXCEPT !.tournament_id = tournament_id]
             r == RegistrationService_create(rdb, data, current_user, t)
         IN  IF r.ret = {} THEN Raise(rdb, 500, "IntegrityError") ELSE Ok(r)

\* Mutant: the registration is made for the tournament_id of the body.
register_for_tournament_body(tdb, rdb, tournament_id, registration_data, current_user, t) ==
    IF TournamentService_get_by_id(tdb, tournament_id) = {}
    THEN Raise(rdb, 404, "Tournament not found")
    ELSE IF ~TournamentService_can_register(tdb, rdb, tournament_id)
    THEN Raise(rdb, 400, "Tournament is not open for registration or is full")
    ELSE IF RegistrationService_get_by_player_and_tournament(
                rdb, current_user, tournament_id) # {}
    THEN Raise(rdb, 400, "Already registered for this tournament")
    ELSE LET r == RegistrationService_create(rdb, registration_data, current_user, t)
         IN  IF r.ret = {} THEN Raise(rdb, 500, "IntegrityError") ELSE Ok(r)

\* The body's tournament_id is overwritten with the one of the path.  An
\* IntegrityError of the commit is not caught: the request fails with status 500.
register_for_tournament(tdb, rdb, tournament_id, registration_data, current_user, t) ==
    IF TournamentService_get_by_id(tdb, tournament_id) = {}
    THEN Raise(rdb, 404, "Tournament not found")
    ELSE IF ~TournamentService_can_register(tdb, rdb, tournament_id)
    THEN Raise(rdb, 400, "Tournament is not open for registration or is full")
    ELSE IF RegistrationService_get_by_player_and_tournament(
                rdb, current_user, tournament_id) # {}
    THEN Raise(rdb, 400, "Already registered for this tournament")
    ELSE LET data == [registration_data EXCEPT !.tournament_id = tournament_id]
             r == RegistrationService_create(rdb, data, current_user, t)
         IN  IF r.ret = {} THEN Raise(rdb, 500, "IntegrityError") ELSE Ok(r)

-----------------------------------------------------------------------------
(* Requests *)

PostTournament(id, current_user, tournament_data) ==
    LET r == create_tournament(tournaments, id, tournament_data, current_user) IN
    /\ id \notin DOMAIN tournaments
    /\ tournaments' = r.db
    /\ last' = Call("create_tournament", id, NONE, r.ret, r.code, r.detail)
    /\ UNCHANGED <<matches, registrations, now, decided, inflight>>

PostMatch(id, current_user, match_data) ==
    LET r == create_match(matches, tournaments, id, match_data, current_user) IN
    /\ id \notin DOMAIN matches
    /\ matches' = r.db
    /\ last' = Call("create_match", id, NONE, r.ret, r.code, r.detail)
    /\ UNCHANGED <<tournaments, registrations, now, decided, inflight>>

PutMatch(match_id, current_user, match_data) ==
    LET r == update_match(matches, tournaments, match_id, match_data, current_user) IN
    /\ matches' = r.db
    /\ last' = Call("update_match", match_id, NONE, r.ret, r.code, r.detail)
    /\ UNCHANGED <<tournaments, registrations, now, decided, inflight>>

PostMatchStatus(match_id, current_user, status_data) ==
    LET r == update_match_status(matches, tournaments, match_id, status_data,
                                 current_user, now)
        wrote ==
            /\ r.code = 200
            /\ The(r.ret).winner_id # NONE
            /\ \/ status_data.action = "complete"
               \/ /\ status_data.action = "forfeit"
                  /\ status_data.forfeit_player_id \in
                        {matches[match_id].player1_id, matches[match_id].player2_id}
    IN
    /\ matches' = r.db
    /\ last' = Call("update_match_status", match_id, NONE, r.ret, r.code, r.detail)
    /\ decided' = IF wrote THEN decided \cup {match_id} ELSE decided
    /\ UNCHANGED <<tournaments, registrations, now, inflight>>

NextApi ==
    \/ \E u \in Players : PostTournament("t1", u, SmallTournament)
    \/ \E m \in MatchIds, u \in Players, d \in MatchCreate : PostMatch(m, u, d)
    \/ \E m \in MatchIds, u \in Players, d \in MatchUpdate : PutMatch(m, u, d)
    \/ \E m \in MatchIds, u \in Players, d \in MatchStatusUpdate :
            PostMatchStatus(m, u, d)

SpecApi == Init /\ [][NextApi]_vars

-----------------------------------------------------------------------------
(* Registration: requests handled one at a time, and the service calls *)

PutTournament(tournament_id, current_user, tournament_data) ==
    LET r == update_tournament(tournaments, tournament_id, tournament_data,
                               current_user) IN
    /\ tournaments' = r.db
    /\ last' = Call("update_tournament", tournament_id, current_user,
                    r.ret, r.code, r.detail)
    /\ UNCHANGED <<matches, registrations, now, decided, inflight>>

DeleteTournament(tournament_id, current_user) ==
    LET r == delete_tournament(tournaments, tournament_id, current_user) IN
    /\ tournaments' = r.db
    /\ last' = Call("delete_tournament", tournament_id, current_user,
                    r.ret, r.code, r.detail)
    /\ UNCHANGED <<matches, registrations, now, decided, inflight>>

PostRegister(tournament_id, current_user, registration_data) ==
    LET r == register_for_tournament(tournaments, registrations, tournament_id,
                                     registration_data, current_user, now) IN
    /\ registrations' = r.db
    /\ last' = Call("register_for_tournament", tournament_id, current_user,
                    r.ret, r.code, r.detail)
    /\ UNCHANGED <<tournaments, matches, now, decided, inflight>>

UpdateRegistration(registration_id, registration_data) ==
    LET r == RegistrationService_update(registrations, registration_id,
                                        registration_data) IN
    /\ registrations' = r.db
    /\ last' = Call("RegistrationService.update", registration_id, NONE, r.ret, 0, NONE)
    /\ UNCHANGED <<tournaments, matches, now, decided, inflight>>

ConfirmRegistration(registration_id) ==
    LET r == RegistrationService_confirm(registrations, registration_id, now) IN
    /\ registrations' = r.db
    /\ last' = Call("RegistrationService.confirm", registration_id, NONE, r.ret, 0, NONE)
    /\ UNCHANGED <<tournaments, matches, now, decided, inflight>>

CancelRegistration(registration_id) ==
    LET r == RegistrationService_cancel(registrations, registration_id) IN
    /\ registrations' = r.db
    /\ last' = Call("RegistrationService.cancel", registration_id, NONE, r.ret, 0, NONE)
    /\ UNCHANGED <<tournaments, matches, now, decided, inflight>>

\* The players who register, and for which tournament.
Registrants == {<<"p1", "t1">>, <<"p2", "t1">>, <<"p1", "t2">>}

\* The registrations the service calls name: those for t1; the one for t2 is
\* only confirmed.
RegistrationIds == {RegistrationId(e[1], e[2], 0) : e \in Registrants}

EditedRegistrationIds == {r \in RegistrationIds : r[2] = "t1"}

\* The tournaments the organizer "p3" opens: t1 with any capacity and flag, t2
\* for one participant.
OpenedTournaments ==
    [t \in TournamentIds |->
        IF t = "t1"
        THEN {d \in TournamentCreate :
                /\ d.max_participants > 0
                /\ d.is_public
                /\ d.registration_deadline = NoTime}
        ELSE {SmallTournament}]

\* The edits the organizer makes to t1.
TournamentEdits ==
    {d \in TournamentUpdate :
        \/ DOMAIN d = {"status"} /\ d.status \in {"REGISTRATION_OPEN", "IN_PROGRESS"}
        \/ DOMAIN d = {"allow_registration"}
        \/ DOMAIN d = {"max_participants"} /\ d.max_participants > 0}

\* The edits made to a registration.
RegistrationEdits ==
    {d \in RegistrationUpdate :
        d # <<>> /\ d.status \in {"WAITLISTED", "REJECTED"}}

NextReg ==
    \/ \E t \in TournamentIds : \E d \in OpenedTournaments[t] : PostTournament(t, "p3", d)
    \/ \E d \in TournamentEdits : PutTournament("t1", "p3", d)
    \/ DeleteTournament("t1", "p3")
    \/ \E e \in Registrants, d \in RegistrationCreate : PostRegister(e[2], e[1], d)
    \/ \E r \in EditedRegistrationIds, d \in RegistrationEdits : UpdateRegistration(r, d)
    \/ \E r \in RegistrationIds : ConfirmRegistration(r)
    \/ \E r \in EditedRegistrationIds : CancelRegistration(r)

SpecReg == Init /\ [][NextReg]_vars

-----------------------------------------------------------------------------
(* Registration: concurrent requests.  register_for_tournament is a coroutine *)
(* that yields at each await, so requests interleave between its queries and  *)
(* its insert.                                                                *)

\* The requests in flight at the same time.
Requests == {"a", "b"}

\* The request arrives: current_user and the tournament_id of the path.
Receive(r, current_user, tournament_id) ==
    /\ r \notin DOMAIN inflight
    /\ inflight' = [k \in DOMAIN inflight \cup {r} |->
                        IF k = r
                        THEN [player_id |-> current_user, tournament_id |-> tournament_id,
                              pc |-> "get_tournament", overlapped |-> FALSE]
                        ELSE inflight[k]]
    /\ UNCHANGED <<tournaments, matches, registrations, now, last, decided>>

\* The request answers: its response is recorded and it stays in the log.
Respond(r, resp) ==
    /\ inflight' = [inflight EXCEPT ![r].pc = "done"]
    /\ last' = Call("register_for_tournament", inflight[r].tournament_id,
                    inflight[r].player_id, resp.ret, resp.code, resp.detail)

\* await TournamentService.get_by_id(db, tournament_id)
GetTournament(r) ==
    /\ r \in DOMAIN inflight
    /\ inflight[r].pc = "get_tournament"
    /\ IF TournamentService_get_by_id(tournaments, inflight[r].tournament_id) = {}
       THEN Respond(r, Raise(registrations, 404, "Tournament not found"))
       ELSE inflight' = [inflight EXCEPT ![r].pc = "can_register"] /\ UNCHANGED last
    /\ UNCHANGED <<tournaments, matches, registrations, now, decided>>

\* await TournamentService.can_register(db, tournament_id)
AskCanRegister(r) ==
    /\ r \in DOMAIN inflight
    /\ inflight[r].pc = "can_register"
    /\ IF ~TournamentService_can_register(tournaments, registrations,
                                          inflight[r].tournament_id)
       THEN Respond(r, Raise(registrations, 400,
                             "Tournament is not open for registration or is full"))
       ELSE inflight' = [inflight EXCEPT ![r].pc = "existing"] /\ UNCHANGED last
    /\ UNCHANGED <<tournaments, matches, registrations, now, decided>>

\* await RegistrationService.get_by_player_and_tournament(...)
AskExisting(r) ==
    /\ r \in DOMAIN inflight
    /\ inflight[r].pc = "existing"
    /\ IF RegistrationService_get_by_player_and_tournament(
            registrations, inflight[r].player_id, inflight[r].tournament_id) # {}
       THEN Respond(r, Raise(registrations, 400,
                             "Already registered for this tournament"))
       ELSE inflight' = [inflight EXCEPT ![r].pc = "create"] /\ UNCHANGED last
    /\ UNCHANGED <<tournaments, matches, registrations, now, decided>>

\* The requests for the same tournament that have passed the capacity check
\* and have not inserted yet.
Admitted(tournament_id) ==
    {k \in DOMAIN inflight :
        /\ inflight[k].tournament_id = tournament_id
        /\ inflight[k].pc \in {"existing", "create"}}

\* await RegistrationService.create(db, registration_data, current_user.id).
\* History: the request and those that were past the capacity check when it
\* inserted are marked as overlapped.
Insert(r) ==
    /\ r \in DOMAIN inflight
    /\ inflight[r].pc = "create"
    /\ LET data == [tournament_id |-> inflight[r].tournament_id]
           c == RegistrationService_create(registrations, data,
                                           inflight[r].player_id, now)
           resp == IF c.ret = {} THEN Raise(registrations, 500, "IntegrityError")
                   ELSE Ok(c)
           others == Admitted(inflight[r].tournament_id) \ {r}
       IN  /\ registrations' = resp.db
           /\ inflight' = [k \in DOMAIN inflight |->
                              IF k = r
                              THEN [inflight[k] EXCEPT !.pc = "done",
                                        !.overlapped = @ \/ others # {}]
                              ELSE IF k \in others
                              THEN [inflight[k] EXCEPT !.overlapped = TRUE]
                              ELSE inflight[k]]
           /\ last' = Call("register_for_tournament", inflight[r].tournament_id,
                           inflight[r].player_id, resp.ret, resp.code, resp.detail)
    /\ UNCHANGED <<tournaments, matches, now, decided>>

NextRace ==
    \/ \E d \in OpenedTournaments["t1"] : PostTournament("t1", "p3", d)
    \/ \E r \in EditedRegistrationIds : ConfirmRegistration(r)
    \/ \E r \in Requests, p \in {"p1", "p2"} : Receive(r, p, "t1")
    \/ \E r \in Requests : GetTournament(r)
    \/ \E r \in Requests : AskCanRegister(r)
    \/ \E r \in Requests : AskExisting(r)
    \/ \E r \in Requests : Insert(r)

SpecRace == Init /\ [][NextRace]_vars

-----------------------------------------------------------------------------
(* The match lifecycle controller: concurrent calls.  complete_match and      *)
(* forfeit_match await the row, check and assign on the loaded object, and    *)
(* await the commit; each request has its own session.                        *)

\* What the call does to the row it has loaded, at time t.
Lifecycle(op, loaded, match_id, arg, t) ==
    LET db == [k \in {match_id} |-> loaded] IN
    IF op = "MatchService.complete_match"
    THEN MatchService_complete_match(db, match_id, arg, t)
    ELSE MatchService_forfeit_match(db, match_id, arg, t)

\* The columns of the UPDATE the commit flushes: those whose assigned value
\* differs from the loaded one.
Dirty(loaded, upd) == {f \in DOMAIN upd : upd[f] # loaded[f]}

\* match = await MatchService.get_by_id(db, match_id), the checks and the
\* assignments: the call returns None at once or goes on to its commit.
Load(r, op, match_id, arg) ==
    LET got == MatchService_get_by_id(matches, match_id)
        refused == got = {} \/ Lifecycle(op, The(got), match_id, arg, now).ret = {}
    IN
    /\ r \notin DOMAIN inflight
    /\ inflight' = [k \in DOMAIN inflight \cup {r} |->
                        IF k = r
                        THEN [op |-> op, match_id |-> match_id, arg |-> arg,
                              loaded |-> got,
                              pc |-> IF refused THEN "done" ELSE "commit",
                              ok |-> FALSE]
                        ELSE inflight[k]]
    /\ last' = IF refused THEN Call(op, match_id, arg, {}, 0, NONE) ELSE last
    /\ UNCHANGED <<tournaments, matches, registrations, now, decided>>

\* await db.commit(); await db.refresh(match): the dirty columns are written
\* to the row as it is now, and the row is read back and returned.
Commit(r) ==
    /\ r \in DOMAIN inflight
    /\ inflight[r].pc = "commit"
    /\ LET c == inflight[r]
           loaded == The(c.loaded)
           upd == The(Lifecycle(c.op, loaded, c.match_id, c.arg, now).ret)
           dirty == Dirty(loaded, upd)
           row == [f \in DOMAIN upd |->
                      IF f \in dirty THEN upd[f] ELSE matches[c.match_id][f]]
       IN  /\ matches' = [matches EXCEPT ![c.match_id] = row]
           /\ inflight' = [inflight EXCEPT ![r].pc = "done", ![r].ok = TRUE]
           /\ last' = Call(c.op, c.match_id, c.arg, {row}, 0, NONE)
           /\ decided' = IF "winner_id" \in dirty /\ row.winner_id # NONE
                         THEN decided \cup {c.match_id} ELSE decided
    /\ UNCHANGED <<tournaments, registrations, now>>

NextMatchRace ==
    \/ CreateTournament("t1", "p3", SmallTournament)
    \/ \E m \in MatchIds, d \in MatchCreate : CreateMatch(m, d)
    \/ \E m \in MatchIds : StartMatch(m)
    \/ \E r \in Requests, m \in MatchIds, w \in {"p1", "p2"} :
            Load(r, "MatchService.complete_match", m, w)
    \/ \E r \in Requests, m \in MatchIds, p \in {"p1", "p2"} :
            Load(r, "MatchService.forfeit_match", m, p)
    \/ \E r \in Requests : Commit(r)

SpecMatchRace == Init /\ [][NextMatchRace]_vars

-----------------------------------------------------------------------------
(* All the writing requests and calls together, on one tournament with one    *)
(* match and one registration                                                 *)

\* The matches created: "p1" against "p2" or against nobody.
MatchesCreated == {d \in MatchCreate : d.player2_id # d.player1_id}

\* The edits made to the match.
MatchEdits ==
    {d \in MatchUpdate : d # <<>> /\ DOMAIN d = {"status"} /\ d.status = "CANCELLED"}

\* The status requests sent for the match.
StatusRequests ==
    {d \in MatchStatusUpdate :
        \/ d.action \in {"start", "pause"}
        \/ d.action = "complete" /\ d.winner_id \in {"p1", NONE, EMPTY}
        \/ d.action = "forfeit" /\ d.forfeit_player_id \in {"p1", "p2", NONE, EMPTY}}

\* The edits made to the tournament.
TournamentChanges ==
    {d \in TournamentUpdate :
        d # <<>> /\ DOMAIN d = {"status"} /\ d.status = "REGISTRATION_OPEN"}

NextAll ==
    \/ PostTournament("t1", "p3", SmallTournament)
    \/ \E u \in Players, d \in TournamentChanges : PutTournament("t1", u, d)
    \/ \E u \in Players : DeleteTournament("t1", u)
    \/ \E m \in MatchIds, u \in Players, d \in MatchesCreated : PostMatch(m, u, d)
    \/ \E m \in MatchIds, u \in Players, d \in MatchEdits : PutMatch(m, u, d)
    \/ \E m \in MatchIds, u \in Players, d \in StatusRequests : PostMatchStatus(m, u, d)
    \/ \E d \in RegistrationCreate : PostRegister("t1", "p1", d)
    \/ \E d \in RegistrationEdits : UpdateRegistration(RegistrationId("p1", "t1", 0), d)
    \/ ConfirmRegistration(RegistrationId("p1", "t1", 0))
    \/ CancelRegistration(RegistrationId("p1", "t1", 0))

SpecAll == Init /\ [][NextAll]_vars

-----------------------------------------------------------------------------
(* The admission rule as a function of the stored rows *)

\* The tournaments tables can_register is asked about: t1 is absent or any row,
\* t2 is absent or a tournament as created.
AdmissionTournaments ==
    LET rows1 == [organizer_id : {"p3"}, status : TournamentStatus,
                  max_participants : 0..MaxParticipants, is_public : {TRUE},
                  allow_registration : BOOLEAN,
                  registration_deadline : {NoTime} \cup 1..MaxTime]
        row2 == The(TournamentService_create(<<>>, "t2", SmallTournament, "p3").ret)
    IN  {<<>>} \cup {[k \in {"t2"} |-> row2]}
        \cup {[k \in {"t1"} |-> r] : r \in rows1}
        \cup {[k \in {"t1", "t2"} |-> IF k = "t1" THEN r ELSE row2] : r \in rows1}

\* The registrations tables: at most one row for each player of t1 and one row
\* for t2, each PENDING, CONFIRMED or CANCELLED, for tournaments that exist.
AdmissionRegistrations(tdb) ==
    LET keys == {RegistrationId(p, "t1", 0) : p \in Players}
                    \cup {RegistrationId("p1", "t2", 0)}
        live == {k \in keys : k[2] \in DOMAIN tdb}
    IN  UNION {[D -> {"PENDING", "CONFIRMED", "CANCELLED"}] : D \in SUBSET live}

InitAdmission ==
    /\ tournaments \in AdmissionTournaments
    /\ \E st \in AdmissionRegistrations(tournaments) :
          registrations = [k \in DOMAIN st |-> RegistrationRow(k[1], k[2], st[k], 1)]
    /\ matches = <<>>
    /\ now = MaxTime
    /\ last = Call("init", NONE, NONE, {}, 0, NONE)
    /\ decided = {}
    /\ inflight = <<>>

CanRegister(tournament_id) ==
    /\ last' = Call("TournamentService.can_register", tournament_id, NONE,
                    Bool(TournamentService_can_register(tournaments, registrations,
                                                        tournament_id)),
                    0, NONE)
    /\ UNCHANGED <<tournaments, matches, registrations, now, decided, inflight>>

NextAdmission == \E t \in TournamentIds : CanRegister(t)

SpecAdmission == InitAdmission /\ [][NextAdmission]_vars

-----------------------------------------------------------------------------
(* Reading tournaments: GET /tournaments/, /tournaments/{id} and              *)
(* /tournaments/my/organized, on tables whose rows carry the columns that     *)
(* the queries read: name, description and created_at.                        *)

\* The characters of the strings that names, descriptions and search terms
\* are drawn from.
Chars(str) ==
    CASE str = "Ace" -> <<"A", "c", "e">>
      [] str = "cup" -> <<"c", "u", "p">>
      [] str = "ace" -> <<"a", "c", "e">>
      [] str = "a"   -> <<"a">>
      [] str = "CE"  -> <<"C", "E">>
      [] OTHER       -> <<>>

Lower(ch) ==
    CASE ch = "A" -> "a"
      [] ch = "C" -> "c"
      [] ch = "E" -> "e"
      [] OTHER    -> ch

\* column.ilike(f"%{search_term}%"): the term occurs in the column, whatever
\* the case of the letters; NULL matches nothing.
ILike(column, search_term) ==
    /\ column # NONE
    /\ LET hay == Chars(column)
           needle == Chars(search_term)
       IN  \E i \in 0..(Len(hay) - Len(needle)) :
               \A j \in 1..Len(needle) : Lower(hay[i + j]) = Lower(needle[j])

\* .order_by(Tournament.created_at.desc()) over the rows selected.
RECURSIVE NewestFirst(_, _)
NewestFirst(db, ids) ==
    IF ids = {} THEN <<>>
    ELSE LET t == CHOOSE x \in ids :
                      \A y \in ids : db[y].created_at <= db[x].created_at
         IN  <<t>> \o NewestFirst(db, ids \ {t})

\* .offset(skip).limit(limit), and the rows as the response lists them.
Page(db, ids, skip, limit) ==
    LET ordered == NewestFirst(db, ids)
        upto == IF skip + limit < Len(ordered) THEN skip + limit ELSE Len(ordered)
        page == SubSeq(ordered, skip + 1, upto)
    IN  [i \in 1..Len(page) |-> [id |-> page[i], tournament |-> db[page[i]]]]

\* Mutant: the list does not filter on is_public.
TournamentService_get_all_private(db, skip, limit, include_private, status_filter, organizer_id) ==
    Page(db,
         {t \in DOMAIN db :
             /\ status_filter # NONE => db[t].status = status_filter
             /\ Truthy(organizer_id) => db[t].organizer_id = organizer_id},
         skip, limit)

TournamentService_get_all(db, skip, limit, include_private, status_filter, organizer_id) ==
    Page(db,
         {t \in DOMAIN db :
             /\ ~include_private => db[t].is_public
             /\ status_filter # NONE => db[t].status = status_filter
             /\ Truthy(organizer_id) => db[t].organizer_id = organizer_id},
         skip, limit)

TournamentService_get_by_organizer(db, organizer_id, skip, limit) ==
    TournamentService_get_all(db, skip, limit, TRUE, NONE, organizer_id)

TournamentService_search(db, search_term, skip, limit) ==
    Page(db,
         {t \in DOMAIN db :
             /\ db[t].is_public
             /\ \/ ILike(db[t].name, search_term)
                \/ ILike(db[t].description, search_term)},
         skip, limit)

get_tournaments(tdb, skip, limit, status, search) ==
    IF Truthy(search)
    THEN Response(tdb, 200, NONE, TournamentService_search(tdb, search, skip, limit))
    ELSE Response(tdb, 200, NONE,
                  TournamentService_get_all(tdb, skip, limit, FALSE, status, NONE))

get_tournament(tdb, tournament_id, current_user) ==
    LET tournament == TournamentService_get_by_id(tdb, tournament_id) IN
    IF tournament = {} THEN Raise(tdb, 404, "Tournament not found")
    ELSE IF ~The(tournament).is_public /\ The(tournament).organizer_id # current_user
    THEN Raise(tdb, 403, "Not authorized to view this tournament")
    ELSE Response(tdb, 200, NONE, tournament)

get_my_tournaments(tdb, skip, limit, current_user) ==
    Response(tdb, 200, NONE,
             TournamentService_get_by_organizer(tdb, current_user, skip, limit))

\* The tournaments tables read: t1 and t2, created in that order by p1 or p3,
\* public or private, with a name, a description or none, and a status.
ViewTournaments ==
    LET rows(created_at) ==
            {[organizer_id |-> o, status |-> st, max_participants |-> MaxParticipants,
              is_public |-> pub, allow_registration |-> TRUE,
              registration_deadline |-> NoTime,
              name |-> n, description |-> d, created_at |-> created_at] :
                o \in {"p1", "p3"}, st \in {"DRAFT", "REGISTRATION_OPEN"},
                pub \in BOOLEAN, n \in {"Ace", "cup"}, d \in {NONE, "ace"}}
    IN  {[k \in {"t1", "t2"} |-> IF k = "t1" THEN r1 ELSE r2] :
            r1 \in rows(1), r2 \in rows(2)}

\* The query parameters of GET /tournaments/ and /tournaments/my/organized.
ListQueries ==
    [skip : {0, 1}, limit : {1, 2}, status : {NONE, "DRAFT"},
     search : {NONE, EMPTY, "a", "CE"}]

InitView ==
    /\ tournaments \in ViewTournaments
    /\ matches = <<>>
    /\ registrations = <<>>
    /\ now = MaxTime
    /\ last = Call("init", NONE, NONE, {}, 0, NONE)
    /\ decided = {}
    /\ inflight = <<>>

ReadTournament(tournament_id, current_user) ==
    LET r == get_tournament(tournaments, tournament_id, current_user) IN
    /\ last' = Call("get_tournament", tournament_id, current_user, r.ret, r.code, r.detail)
    /\ UNCHANGED <<tournaments, matches, registrations, now, decided, inflight>>

ReadTournaments(q, current_user) ==
    LET r == get_tournaments(tournaments, q.skip, q.limit, q.status, q.search) IN
    /\ last' = Call("get_tournaments", q, current_user, r.ret, r.code, r.detail)
    /\ UNCHANGED <<tournaments, matches, registrations, now, decided, inflight>>

ReadMyTournaments(q, current_user) ==
    LET r == get_my_tournaments(tournaments, q.skip, q.limit, current_user) IN
    /\ last' = Call("get_my_tournaments", q, current_user, r.ret, r.code, r.detail)
    /\ UNCHANGED <<tournaments, matches, registrations, now, decided, inflight>>

NextView ==
    \/ \E t \in TournamentIds \cup {"t9"}, c \in {"p1", "p2"} : ReadTournament(t, c)
    \/ \E q \in ListQueries : ReadTournaments(q, "p2")
    \/ \E q \in {x \in ListQueries : x.status = NONE /\ x.search = NONE},
          c \in {"p1", "p2"} : ReadMyTournaments(q, c)

SpecView == InitView /\ [][NextView]_vars

-----------------------------------------------------------------------------
(* The match lifecycle controller, under Spec *)

Exists(m) == m \in DOMAIN matches

\* A call of one of the three named operations on match m.
LifecycleStep(m) ==
    \/ StartMatch(m)
    \/ \E w \in Players : CompleteMatch(m, w)
    \/ \E p \in Players : ForfeitMatch(m, p)

\* C1: start_match succeeds (returns the match) if and only if the match's status
\* is SCHEDULED; after a successful start the status is IN_PROGRESS and started_at
\* holds the time of the call; a start that follows a successful start of the
\* same match returns None.
C1_StartIffScheduled ==
    [][\A m \in MatchIds : StartMatch(m) =>
          /\ (last'.ret # {}) <=> (Exists(m) /\ matches[m].status = "SCHEDULED")
          /\ last'.ret # {} =>
                /\ last'.ret = {matches'[m]}
                /\ matches'[m].status = "IN_PROGRESS"
                /\ matches'[m].started_at = now
                /\ matches'[m].started_at # NoTime
          /\ (last.op = "MatchService.start_match" /\ last.id = m /\ last.ret # {})
                => last'.ret = {}
      ]_vars

\* C1 witness: a start has just succeeded.
C1_Witness ==
    /\ last.op = "MatchService.start_match"
    /\ last.ret # {}
    /\ matches[last.id].status = "IN_PROGRESS"
    /\ matches[last.id].started_at = now

\* C2: complete_match(winner_id) succeeds if and only if the match's status is
\* IN_PROGRESS; after a successful complete the status is COMPLETED, winner_id is
\* the argument and completed_at holds the time of the call.
C2_CompleteIffInProgress ==
    [][\A m \in MatchIds, w \in Players : CompleteMatch(m, w) =>
          /\ (last'.ret # {}) <=> (Exists(m) /\ matches[m].status = "IN_PROGRESS")
          /\ last'.ret # {} =>
                /\ last'.ret = {matches'[m]}
                /\ matches'[m].status = "COMPLETED"
                /\ matches'[m].winner_id = w
                /\ matches'[m].completed_at = now
                /\ matches'[m].completed_at # NoTime
      ]_vars

\* C2 witness: a complete has just succeeded and the match holds its winner.
C2_Witness ==
    /\ last.op = "MatchService.complete_match"
    /\ last.ret # {}
    /\ matches[last.id].status = "COMPLETED"
    /\ matches[last.id].winner_id = last.arg
    /\ matches[last.id].completed_at = now

\* C3: forfeit_match(p) succeeds if and only if the match's status is SCHEDULED
\* or IN_PROGRESS; after a successful forfeit the status is FORFEIT, forfeit_by is
\* p and completed_at holds the time of the call.
C3_ForfeitIffOpen ==
    [][\A m \in MatchIds, p \in Players : ForfeitMatch(m, p) =>
          /\ (last'.ret # {}) <=>
                (Exists(m) /\ matches[m].status \in {"SCHEDULED", "IN_PROGRESS"})
          /\ last'.ret # {} =>
                /\ last'.ret = {matches'[m]}
                /\ matches'[m].status = "FORFEIT"
                /\ matches'[m].forfeit_by = p
                /\ matches'[m].completed_at = now
                /\ matches'[m].completed_at # NoTime
      ]_vars

\* C3 witness: a forfeit has just succeeded on a match that had been started.
C3_Witness ==
    /\ last.op = "MatchService.forfeit_match"
    /\ last.ret # {}
    /\ matches[last.id].status = "FORFEIT"
    /\ matches[last.id].forfeit_by = last.arg
    /\ matches[last.id].started_at # NoTime

\* C4: after a successful forfeit_match(p): if p is player1, winner_id is player2
\* (None for a bye); if p is player2, winner_id is player1; if p is neither, no
\* winner is derived: winner_id is what it was, so unset stays unset.
C4_ForfeitWinner ==
    [][\A m \in MatchIds, p \in Players : (ForfeitMatch(m, p) /\ last'.ret # {}) =>
          /\ p = matches[m].player1_id =>
                matches'[m].winner_id = matches[m].player2_id
          /\ p = matches[m].player2_id =>
                matches'[m].winner_id = matches[m].player1_id
          /\ p \notin {matches[m].player1_id, matches[m].player2_id} =>
                /\ matches'[m].winner_id = matches[m].winner_id
                /\ matches[m].winner_id = NONE => matches'[m].winner_id = NONE
          /\ matches'[m].player1_id = matches[m].player1_id
          /\ matches'[m].player2_id = matches[m].player2_id
      ]_vars

\* C4 witness: player2 has just forfeited a match between two different players
\* and player1 is the winner.
C4_Witness ==
    /\ last.op = "MatchService.forfeit_match"
    /\ last.ret # {}
    /\ last.arg = matches[last.id].player2_id
    /\ matches[last.id].player1_id # matches[last.id].player2_id
    /\ matches[last.id].winner_id = matches[last.id].player1_id

\* C5: a start, complete or forfeit whose precondition on the status does not
\* hold returns None and leaves the whole matches table as it was.
C5_RejectedIsNoOp ==
    [][\A m \in MatchIds :
          /\ (StartMatch(m) /\ ~(Exists(m) /\ matches[m].status = "SCHEDULED"))
                => (last'.ret = {} /\ matches' = matches)
          /\ \A w \in Players :
                (CompleteMatch(m, w) /\ ~(Exists(m) /\ matches[m].status = "IN_PROGRESS"))
                    => (last'.ret = {} /\ matches' = matches)
          /\ \A p \in Players :
                (ForfeitMatch(m, p)
                    /\ ~(Exists(m) /\ matches[m].status \in {"SCHEDULED", "IN_PROGRESS"}))
                    => (last'.ret = {} /\ matches' = matches)
      ]_vars

\* C5 witness: a start on a COMPLETED match has just been rejected.
C5_Witness ==
    /\ last.op = "MatchService.start_match"
    /\ last.ret = {}
    /\ Exists(last.id)
    /\ matches[last.id].status = "COMPLETED"
    /\ matches[last.id].winner_id # NONE

\* The status changes of the state machine.
DeclaredTransitions ==
    {<<"SCHEDULED", "IN_PROGRESS">>, <<"IN_PROGRESS", "COMPLETED">>,
     <<"SCHEDULED", "FORFEIT">>, <<"IN_PROGRESS", "FORFEIT">>}

\* C6: a start, complete or forfeit changes the status only along SCHEDULED ->
\* IN_PROGRESS, IN_PROGRESS -> COMPLETED, SCHEDULED -> FORFEIT and IN_PROGRESS ->
\* FORFEIT; it changes nothing of a COMPLETED, FORFEIT or CANCELLED match and
\* never yields CANCELLED.
C6_DeclaredTransitionsOnly ==
    [][\A m \in DOMAIN matches : LifecycleStep(m) =>
          /\ \/ matches'[m].status = matches[m].status
             \/ <<matches[m].status, matches'[m].status>> \in DeclaredTransitions
          /\ matches[m].status \in {"COMPLETED", "FORFEIT", "CANCELLED"}
                => matches'[m] = matches[m]
          /\ matches'[m].status = "CANCELLED" => matches[m].status = "CANCELLED"
      ]_vars

\* C6 witness: a forfeit on a CANCELLED match has just been rejected.
C6_Witness ==
    /\ last.op = "MatchService.forfeit_match"
    /\ last.ret = {}
    /\ Exists(last.id)
    /\ matches[last.id].status = "CANCELLED"

\* C7, as claimed: over every execution, administrative updates included, a match
\* that is COMPLETED, FORFEIT or CANCELLED never changes status again and no
\* match returns to SCHEDULED.
C7_StatusMonotonicEverywhere ==
    [][\A m \in DOMAIN matches :
          /\ matches[m].status \in {"COMPLETED", "FORFEIT", "CANCELLED"}
                => matches'[m].status = matches[m].status
          /\ matches[m].status \in MatchStatus \ {"SCHEDULED"}
                => matches'[m].status # "SCHEDULED"
      ]_vars

\* C7, amended: a status change off the declared transitions (one out of
\* COMPLETED, FORFEIT or CANCELLED, or one back to SCHEDULED, among them) is made
\* by MatchService.update and by no other operation.
C7_OnlyUpdateLeavesStateMachine ==
    [][\A m \in DOMAIN matches :
          (/\ matches'[m].status # matches[m].status
           /\ <<matches[m].status, matches'[m].status>> \notin DeclaredTransitions)
              => (\E d \in MatchUpdate : UpdateMatch(m, d) /\ "status" \in DOMAIN d)
      ]_vars

\* C7 witness: an administrative update has put a completed match back to
\* SCHEDULED.
C7_Witness ==
    /\ last.op = "MatchService.update"
    /\ last.ret # {}
    /\ matches[last.id].status = "SCHEDULED"
    /\ matches[last.id].completed_at # NoTime
    /\ matches[last.id].winner_id # NONE
    /\ matches[last.id].forfeit_by = NONE

\* C8, as claimed: forfeit_by is unset or one of the match's two participants,
\* in every state the match endpoints can reach.
C8_ForfeitByIsParticipant ==
    \A m \in DOMAIN matches :
        matches[m].forfeit_by \in
            {NONE, matches[m].player1_id, matches[m].player2_id}

\* C9, as claimed: once a complete or forfeit has set winner_id, no start,
\* complete or forfeit sets it back to unset.
C9_WinnerNeverCleared ==
    [][\A m \in DOMAIN matches :
          (LifecycleStep(m) /\ m \in decided /\ matches[m].winner_id # NONE)
              => matches'[m].winner_id # NONE
      ]_vars

\* C9, amended: once a complete or forfeit has set winner_id, a start never
\* changes it, a complete never unsets it, and a forfeit unsets it only when the
\* forfeiting player is player1 and player2_id is None (the winner is the other
\* slot, which is empty).
C9_WinnerClearedOnlyByByeForfeit ==
    [][\A m \in DOMAIN matches :
          (m \in decided /\ matches[m].winner_id # NONE) =>
              /\ StartMatch(m) => matches'[m].winner_id = matches[m].winner_id
              /\ \A w \in Players : CompleteMatch(m, w) => matches'[m].winner_id # NONE
              /\ \A p \in Players :
                    (ForfeitMatch(m, p) /\ matches'[m].winner_id = NONE)
                        => (p = matches[m].player1_id /\ matches[m].player2_id = NONE)
      ]_vars

\* C9 witness: on a match that a complete had decided and an administrative
\* update had reopened, player1 has forfeited against an empty player2 slot.
C9_Witness ==
    /\ last.op = "MatchService.forfeit_match"
    /\ last.ret # {}
    /\ last.id \in decided
    /\ last.arg = matches[last.id].player1_id
    /\ matches[last.id].player2_id = NONE
    /\ matches[last.id].winner_id = NONE
    /\ matches[last.id].started_at # NoTime

-----------------------------------------------------------------------------
(* The match endpoints, under SpecApi *)

\* The caller is the organizer of the match's tournament.
IsOrganizer(u, m) ==
    /\ matches[m].tournament_id \in DOMAIN tournaments
    /\ tournaments[matches[m].tournament_id].organizer_id = u

\* The caller is one of the players of the match.
IsPlayer(u, m) == u \in {matches[m].player1_id, matches[m].player2_id}

\* The complete request that names winner w.
CompleteRequest(w) ==
    [action |-> "complete", winner_id |-> w, forfeit_player_id |-> NONE]

\* The forfeit request that names player f.
ForfeitRequest(f) ==
    [action |-> "forfeit", winner_id |-> NONE, forfeit_player_id |-> f]

\* C16: for an IN_PROGRESS match, a complete request of the organizer or of a
\* player of the match succeeds with any winner_id that is not empty, a
\* participant or not, and the match is COMPLETED with that winner_id.
C16_CompleteAcceptsAnyWinner ==
    [][\A m \in DOMAIN matches :
          (last'.op = "update_match_status" /\ matches[m].status = "IN_PROGRESS") =>
              \A u \in Players, w \in Players :
                  ( /\ IsOrganizer(u, m) \/ IsPlayer(u, m)
                    /\ PostMatchStatus(m, u, CompleteRequest(w)) ) =>
                      /\ last'.code = 200
                      /\ matches'[m].status = "COMPLETED"
                      /\ matches'[m].winner_id = w
      ]_vars

\* C16 witness: a complete request has just succeeded and the winner it stored
\* is neither player1 nor player2 of the match.
C16_Witness ==
    /\ last.op = "update_match_status"
    /\ last.code = 200
    /\ matches[last.id].status = "COMPLETED"
    /\ matches[last.id].forfeit_by = NONE
    /\ matches[last.id].winner_id \in
            Players \ {matches[last.id].player1_id, matches[last.id].player2_id}

\* C19: a forfeit request that names a player other than the caller, from a
\* caller who is not the organizer of the match's tournament, is rejected with
\* status 403 and leaves the match as it was; the organizer's forfeit request
\* for either player of a SCHEDULED or IN_PROGRESS match succeeds.
C19_ForfeitOnlyOwnBehalf ==
    [][\A m \in DOMAIN matches :
          last'.op = "update_match_status" =>
              \A u \in Players, f \in Players :
                  PostMatchStatus(m, u, ForfeitRequest(f)) =>
                      /\ (~IsOrganizer(u, m) /\ f # u) =>
                            /\ last'.code = 403
                            /\ last'.detail \in {"Can only forfeit your own match",
                                                  "Not authorized to update this match"}
                            /\ matches' = matches
                      /\ ( /\ IsOrganizer(u, m)
                           /\ f \in {matches[m].player1_id, matches[m].player2_id}
                           /\ matches[m].status \in {"SCHEDULED", "IN_PROGRESS"} ) =>
                            /\ last'.code = 200
                            /\ matches'[m].status = "FORFEIT"
                            /\ matches'[m].forfeit_by = f
      ]_vars

\* C19 witness: a forfeit request has just been refused as "Can only forfeit
\* your own match" on a match that could be forfeited, whose two players
\* differ and whose tournament's organizer is neither of them.
C19_Witness ==
    /\ last.op = "update_match_status"
    /\ last.code = 403
    /\ last.detail = "Can only forfeit your own match"
    /\ matches[last.id].status \in {"SCHEDULED", "IN_PROGRESS"}
    /\ matches[last.id].player2_id \notin {NONE, matches[last.id].player1_id}
    /\ ~IsPlayer(tournaments[matches[last.id].tournament_id].organizer_id, last.id)

-----------------------------------------------------------------------------
(* The registration admission controller, under SpecAdmission *)

\* The CONFIRMED registrations of tournament t.
Confirmed(t) ==
    {k \in DOMAIN registrations :
        registrations[k].tournament_id = t /\ registrations[k].status = "CONFIRMED"}

\* C10: can_register(t) returns True if and only if the tournament exists,
\* allow_registration is true, the status is DRAFT or REGISTRATION_OPEN and the
\* tournament has fewer CONFIRMED registrations than max_participants; it returns
\* False whenever allow_registration is false.
C10_CanRegisterIff ==
    [][\A t \in TournamentIds : CanRegister(t) =>
          /\ last'.ret \in {Bool(TRUE), Bool(FALSE)}
          /\ (last'.ret = Bool(TRUE)) <=>
                /\ t \in DOMAIN tournaments
                /\ tournaments[t].allow_registration
                /\ tournaments[t].status \in {"DRAFT", "REGISTRATION_OPEN"}
                /\ Cardinality(Confirmed(t)) < tournaments[t].max_participants
          /\ (t \in DOMAIN tournaments /\ ~tournaments[t].allow_registration)
                => last'.ret = Bool(FALSE)
      ]_vars

\* C10 witness: can_register has just refused an open tournament that has as
\* many CONFIRMED registrations as max_participants, while another tournament
\* has a CONFIRMED registration too.
C10_Witness ==
    /\ last.op = "TournamentService.can_register"
    /\ last.ret = Bool(FALSE)
    /\ last.id \in DOMAIN tournaments
    /\ tournaments[last.id].allow_registration
    /\ tournaments[last.id].status = "REGISTRATION_OPEN"
    /\ tournaments[last.id].max_participants > 0
    /\ Cardinality(Confirmed(last.id)) = tournaments[last.id].max_participants
    /\ \E t \in DOMAIN tournaments : t # last.id /\ Confirmed(t) # {}

\* The tournaments table with the registration_deadline of t set to d.
WithDeadline(tdb, t, d) ==
    IF t \in DOMAIN tdb THEN [tdb EXCEPT ![t].registration_deadline = d] ELSE tdb

\* C17: whatever registration_deadline the tournament has, with the same
\* registrations can_register returns the same and a register request of any
\* player gets the same response and writes the same.
C17_DeadlineNotConsulted ==
    [][\A t \in TournamentIds : CanRegister(t) =>
          \A d \in {NoTime} \cup 1..MaxTime :
              LET tdb == WithDeadline(tournaments, t, d) IN
              /\ Bool(TournamentService_can_register(tdb, registrations, t)) = last'.ret
              /\ \A p \in Players :
                    register_for_tournament(tdb, registrations, t,
                                            [tournament_id |-> t], p, now)
                    = register_for_tournament(tournaments, registrations, t,
                                              [tournament_id |-> t], p, now)
      ]_vars

\* C17 witness: can_register has just returned True for a tournament whose
\* registration_deadline has passed.
C17_Witness ==
    /\ last.op = "TournamentService.can_register"
    /\ last.ret = Bool(TRUE)
    /\ tournaments[last.id].registration_deadline # NoTime
    /\ tournaments[last.id].registration_deadline < now
    /\ Confirmed(last.id) # {}

-----------------------------------------------------------------------------
(* Registration requests handled one at a time, under SpecReg *)

\* The step is a register request of player p for tournament t.
RegisterStep(t, p) ==
    /\ last'.op = "register_for_tournament"
    /\ last'.id = t
    /\ last'.arg = p
    /\ \E d \in RegistrationCreate : PostRegister(t, p, d)

\* C11: whenever a tournament has as many CONFIRMED registrations as
\* max_participants, or more, can_register returns False for it and a register
\* request for it is rejected with status 400 and writes nothing.
C11_FullTournamentRejects ==
    [][\A t \in DOMAIN tournaments :
          Cardinality(Confirmed(t)) >= tournaments[t].max_participants =>
              /\ ~TournamentService_can_register(tournaments, registrations, t)
              /\ \A p \in Players :
                    RegisterStep(t, p) =>
                        /\ last'.code = 400
                        /\ last'.detail = "Tournament is not open for registration or is full"
                        /\ last'.ret = {}
                        /\ registrations' = registrations
      ]_vars

\* C11 witness: a register request has just been rejected for an open
\* tournament that allows registration and has as many CONFIRMED registrations
\* as max_participants; the player had no registration for it.
C11_Witness ==
    /\ last.op = "register_for_tournament"
    /\ last.code = 400
    /\ last.id \in DOMAIN tournaments
    /\ tournaments[last.id].allow_registration
    /\ tournaments[last.id].status = "REGISTRATION_OPEN"
    /\ Cardinality(Confirmed(last.id)) = tournaments[last.id].max_participants
    /\ RegistrationsOf(registrations, last.arg, last.id) = {}

\* C12: a register request by a player who has a registration for the
\* tournament, in whatever status, is rejected with status 400 and leaves the
\* registrations, the existing one included, as they were.
C12_SecondRegistrationRejected ==
    [][\A t \in TournamentIds, p \in Players :
          (RegisterStep(t, p) /\ RegistrationsOf(registrations, p, t) # {}) =>
              /\ last'.code = 400
              /\ last'.detail \in
                    {"Tournament is not open for registration or is full",
                     "Already registered for this tournament"}
              /\ last'.ret = {}
              /\ registrations' = registrations
      ]_vars

\* C12 witness: a register request has just been rejected as already
\* registered while the player's registration is CANCELLED.
C12_Witness ==
    /\ last.op = "register_for_tournament"
    /\ last.code = 400
    /\ last.detail = "Already registered for this tournament"
    /\ \E k \in RegistrationsOf(registrations, last.arg, last.id) :
          registrations[k].status = "CANCELLED"

\* C14: when can_register holds for the tournament and the player has no
\* registration for it, a register request adds exactly one registration, of
\* that player for that tournament, PENDING and with the time of the request as
\* registration_date, and returns it; the other registrations and the
\* tournaments stay as they were.
C14_RegisterCreatesPending ==
    [][\A t \in TournamentIds, p \in Players :
          ( /\ RegisterStep(t, p)
            /\ TournamentService_can_register(tournaments, registrations, t)
            /\ RegistrationsOf(registrations, p, t) = {} ) =>
              /\ last'.code = 200
              /\ \E id \in DOMAIN registrations' \ DOMAIN registrations :
                    /\ DOMAIN registrations' = DOMAIN registrations \cup {id}
                    /\ registrations'[id].player_id = p
                    /\ registrations'[id].tournament_id = t
                    /\ registrations'[id].status = "PENDING"
                    /\ registrations'[id].registration_date = now
                    /\ registrations'[id].registration_date # NoTime
                    /\ last'.ret = {registrations'[id]}
              /\ \A k \in DOMAIN registrations : registrations'[k] = registrations[k]
              /\ tournaments' = tournaments
      ]_vars

\* C14 witness: a register request has just created the PENDING registration
\* of a player for a tournament where another player is registered already.
C14_Witness ==
    /\ last.op = "register_for_tournament"
    /\ last.code = 200
    /\ \E k \in RegistrationsOf(registrations, last.arg, last.id) :
          /\ registrations[k].status = "PENDING"
          /\ last.ret = {registrations[k]}
    /\ \E k \in DOMAIN registrations :
          /\ registrations[k].tournament_id = last.id
          /\ registrations[k].player_id # last.arg

\* The step is a call of confirm for registration r.
ConfirmStep(r) ==
    /\ last'.op = "RegistrationService.confirm"
    /\ last'.id = r
    /\ ConfirmRegistration(r)

\* C23: confirm returns the registration if and only if it exists and is
\* PENDING; then the registration is CONFIRMED with the time of the call as
\* confirmation_date and nothing else is changed; otherwise confirm returns
\* None and changes nothing.
C23_ConfirmIffPending ==
    [][\A r \in RegistrationIds : ConfirmStep(r) =>
          LET pending == r \in DOMAIN registrations
                            /\ registrations[r].status = "PENDING" IN
          /\ (last'.ret # {}) <=> pending
          /\ pending =>
                /\ registrations' =
                      [registrations EXCEPT ![r].status = "CONFIRMED",
                                            ![r].confirmation_date = now]
                /\ registrations'[r].confirmation_date # NoTime
                /\ last'.ret = {registrations'[r]}
          /\ ~pending => registrations' = registrations
          /\ tournaments' = tournaments
      ]_vars

\* C23 witness: confirm has just returned None for a CANCELLED registration
\* that had been confirmed before, and the registration is still CANCELLED.
C23_Witness ==
    /\ last.op = "RegistrationService.confirm"
    /\ last.ret = {}
    /\ last.id \in DOMAIN registrations
    /\ registrations[last.id].status = "CANCELLED"
    /\ registrations[last.id].confirmation_date # NoTime

\* The step is a call of cancel for registration r.
CancelStep(r) ==
    /\ last'.op = "RegistrationService.cancel"
    /\ last'.id = r
    /\ CancelRegistration(r)

\* C24: cancel of an existing registration succeeds in whatever status and
\* sets the status to CANCELLED, leaving the other fields and the other
\* registrations as they were; a second cancel changes nothing more.  For a
\* registration that does not exist it returns None and changes nothing.
C24_CancelFromAnyStatus ==
    [][\A r \in RegistrationIds : CancelStep(r) =>
          IF r \in DOMAIN registrations
          THEN /\ registrations' = [registrations EXCEPT ![r].status = "CANCELLED"]
               /\ last'.ret = {registrations'[r]}
               /\ RegistrationService_cancel(registrations', r)
                    = Result(registrations', last'.ret)
          ELSE last'.ret = {} /\ registrations' = registrations
      ]_vars

\* C24 witness: cancel has just succeeded for a registration that is (now)
\* CANCELLED and was confirmed at some time.
C24_Witness ==
    /\ last.op = "RegistrationService.cancel"
    /\ last.ret # {}
    /\ registrations[last.id].status = "CANCELLED"
    /\ registrations[last.id].confirmation_date # NoTime
    /\ registrations[last.id].registration_date # NoTime

\* C25, as claimed: no tournament has more CONFIRMED registrations than
\* max_participants, in any state that register requests and confirm, cancel
\* and update calls reach.
C25_ConfirmedWithinCapacity ==
    \A t \in DOMAIN tournaments :
        Cardinality(Confirmed(t)) <= tournaments[t].max_participants

-----------------------------------------------------------------------------
(* Concurrent registration requests, under SpecRace *)

\* C13: there is never more than one registration of a player for a
\* tournament, however register requests interleave.
C13_OneRegistrationPerPair ==
    \A p \in Players, t \in TournamentIds :
        Cardinality(RegistrationsOf(registrations, p, t)) <= 1

\* C13 witness: two requests of the same player for the same tournament had
\* both passed the existence check before either inserted; the insert of one
\* has succeeded and the insert of the other has just failed on the unique
\* constraint.
C13_Witness ==
    /\ DOMAIN inflight = Requests
    /\ \A r \in Requests : inflight[r].pc = "done" /\ inflight[r].overlapped
    /\ inflight["a"].player_id = inflight["b"].player_id
    /\ last.code = 500
    /\ Cardinality(RegistrationsOf(registrations, last.arg, last.id)) = 1

\* The step is the insert of request r and it writes a registration.
InsertStep(r) ==
    /\ r \in DOMAIN inflight
    /\ inflight[r].pc = "create"
    /\ Insert(r)
    /\ last'.code = 200

-----------------------------------------------------------------------------
(* All the writing requests and calls, under SpecAll *)

\* C18: no step removes a tournament, a match or a registration, and a delete
\* request that succeeds sets the status of the tournament to CANCELLED and
\* leaves its other fields, the matches and the registrations as they were.
C18_NothingIsRemoved ==
    [][/\ DOMAIN tournaments \subseteq DOMAIN tournaments'
       /\ DOMAIN matches \subseteq DOMAIN matches'
       /\ DOMAIN registrations \subseteq DOMAIN registrations'
       /\ \A t \in TournamentIds, u \in Players :
             ( /\ last'.op = "delete_tournament"
               /\ DeleteTournament(t, u)
               /\ last'.code = 200 ) =>
                 /\ t \in DOMAIN tournaments
                 /\ tournaments' = [tournaments EXCEPT ![t].status = "CANCELLED"]
                 /\ matches' = matches
                 /\ registrations' = registrations
      ]_vars

\* C18 witness: the delete request of the organizer has just succeeded for a
\* tournament that has a match and a registration: the tournament is there,
\* CANCELLED, with both.
C18_Witness ==
    /\ last.op = "delete_tournament"
    /\ last.code = 200
    /\ last.id \in DOMAIN tournaments
    /\ tournaments[last.id].status = "CANCELLED"
    /\ \E m \in DOMAIN matches : matches[m].tournament_id = last.id
    /\ \E k \in DOMAIN registrations : registrations[k].tournament_id = last.id

\* Player u is not the organizer of the existing tournament t.
NotOrganizer(u, t) ==
    t \in DOMAIN tournaments /\ tournaments[t].organizer_id # u

\* The step is a request of player u, who is not the organizer, to create or
\* edit a match of tournament t or to edit or cancel the tournament.
OutsiderEdit(u, t) ==
    /\ NotOrganizer(u, t)
    /\ \/ /\ last'.op = "create_match"
          /\ \E m \in MatchIds, d \in MatchesCreated :
                d.tournament_id = t /\ PostMatch(m, u, d)
       \/ /\ last'.op = "update_match"
          /\ \E m \in DOMAIN matches, d \in MatchEdits :
                matches[m].tournament_id = t /\ PutMatch(m, u, d)
       \/ /\ last'.op = "update_tournament"
          /\ \E d \in TournamentChanges : PutTournament(t, u, d)
       \/ /\ last'.op = "delete_tournament"
          /\ DeleteTournament(t, u)

\* The step is a status request for match m of player u, who is not the
\* organizer of its tournament.
OutsiderStatus(u, m) ==
    /\ last'.op = "update_match_status"
    /\ NotOrganizer(u, matches[m].tournament_id)
    /\ \E d \in StatusRequests : PostMatchStatus(m, u, d)

\* The request was refused as not authorized and wrote nothing.
Refused ==
    /\ last'.code = 403
    /\ tournaments' = tournaments
    /\ matches' = matches

\* C20 as stated: every request of a player who is not the organizer, to
\* create or change a match of the tournament or to change or cancel the
\* tournament, is refused and leaves the tournament and its matches unchanged.
C20_OnlyOrganizerMutates ==
    [][\A u \in Players :
          /\ \A t \in TournamentIds : OutsiderEdit(u, t) => Refused
          /\ \A m \in DOMAIN matches : OutsiderStatus(u, m) => Refused
      ]_vars

\* C20, amended: such a request is refused with status 403 and leaves the
\* tournament and its matches unchanged, except for a status request (start,
\* complete, forfeit) from a player of the match.
C20_OnlyOrganizerOrPlayerMutates ==
    [][\A u \in Players :
          /\ \A t \in TournamentIds : OutsiderEdit(u, t) => Refused
          /\ \A m \in DOMAIN matches :
                (OutsiderStatus(u, m) /\ ~IsPlayer(u, m)) => Refused
      ]_vars

\* C20 witness: the request of a player who is not the organizer to cancel a
\* tournament that has a match has just been refused.
C20_Witness ==
    /\ last.op = "delete_tournament"
    /\ last.code = 403
    /\ last.id \in DOMAIN tournaments
    /\ tournaments[last.id].organizer_id # last.arg
    /\ tournaments[last.id].status # "CANCELLED"
    /\ \E m \in DOMAIN matches : matches[m].tournament_id = last.id

\* The caller may send status requests for the match.
Authorized(u, m) == IsOrganizer(u, m) \/ IsPlayer(u, m)

\* The action of the request is a transition the status of the match allows.
Applicable(m, d) ==
    \/ d.action = "start" /\ matches[m].status = "SCHEDULED"
    \/ d.action = "complete" /\ matches[m].status = "IN_PROGRESS"
    \/ d.action = "forfeit" /\ matches[m].status \in {"SCHEDULED", "IN_PROGRESS"}

\* A player who is not the organizer asks for the forfeit of somebody else.
ForeignForfeit(u, m, d) ==
    /\ d.action = "forfeit"
    /\ Truthy(d.forfeit_player_id)
    /\ d.forfeit_player_id # u
    /\ ~IsOrganizer(u, m)

\* The request lacks the field its action needs.
MissingField(d) ==
    \/ d.action = "complete" /\ ~Truthy(d.winner_id)
    \/ d.action = "forfeit" /\ ~Truthy(d.forfeit_player_id)

\* The step is the status request d of player u for match m.
StatusStep(m, u, d) ==
    /\ last'.op = "update_match_status"
    /\ last'.id = m
    /\ PostMatchStatus(m, u, d)

\* C21 as stated: a missing match gives 404; else a caller who is neither the
\* organizer nor a player of the match gives 403; else an unknown action or a
\* transition that the status does not allow gives 400; a request that is
\* rejected leaves the match unchanged.
C21_StatusPrecedence ==
    [][\A m \in MatchIds, u \in Players, d \in StatusRequests :
          StatusStep(m, u, d) =>
              /\ m \notin DOMAIN matches => last'.code = 404
              /\ (m \in DOMAIN matches /\ ~Authorized(u, m)) => last'.code = 403
              /\ ( /\ m \in DOMAIN matches
                   /\ Authorized(u, m)
                   /\ ~Applicable(m, d) ) => last'.code = 400
              /\ last'.code # 200 => matches' = matches
      ]_vars

\* C21, amended: as stated, except that the forfeit request of a player of the
\* match who is not the organizer and names another player gives 403 whatever
\* the status of the match, and a request that lacks the field of its action
\* gives 400.
C21_StatusPrecedenceOwnForfeit ==
    [][\A m \in MatchIds, u \in Players, d \in StatusRequests :
          StatusStep(m, u, d) =>
              /\ m \notin DOMAIN matches => last'.code = 404
              /\ (m \in DOMAIN matches /\ ~Authorized(u, m)) => last'.code = 403
              /\ ( /\ m \in DOMAIN matches
                   /\ Authorized(u, m)
                   /\ ForeignForfeit(u, m, d) ) => last'.code = 403
              /\ ( /\ m \in DOMAIN matches
                   /\ Authorized(u, m)
                   /\ ~ForeignForfeit(u, m, d)
                   /\ ~Applicable(m, d) \/ MissingField(d) ) => last'.code = 400
              /\ last'.code \in {200, 400, 403, 404}
              /\ last'.code # 200 => matches' = matches
      ]_vars

\* C21 witness: a status request has just been answered 400 because the
\* transition does not apply to a COMPLETED match.
C21_Witness ==
    /\ last.op = "update_match_status"
    /\ last.code = 400
    /\ last.detail = "Could not update match status"
    /\ last.id \in DOMAIN matches
    /\ matches[last.id].status = "COMPLETED"

\* C22: a complete request without winner_id and a forfeit request without
\* forfeit_player_id fail whatever the status of the match and leave the match
\* as it was; for a caller who may send status requests the answer is the 400
\* of the missing field, raised before the lifecycle controller is called.
C22_MissingFieldRejected ==
    [][\A m \in MatchIds, u \in Players, d \in StatusRequests :
          (MissingField(d) /\ StatusStep(m, u, d)) =>
              /\ last'.code \in {400, 403, 404}
              /\ matches' = matches
              /\ (m \in DOMAIN matches /\ Authorized(u, m)) =>
                    /\ last'.code = 400
                    /\ last'.detail =
                          IF d.action = "complete"
                          THEN "Winner ID required to complete match"
                          ELSE "Forfeit player ID required"
      ]_vars

\* C22 witness: a complete request without winner_id has just been refused
\* for a match that is IN_PROGRESS.
C22_Witness ==
    /\ last.op = "update_match_status"
    /\ last.code = 400
    /\ last.detail = "Winner ID required to complete match"
    /\ matches[last.id].status = "IN_PROGRESS"
    /\ matches[last.id].completed_at = NoTime

-----------------------------------------------------------------------------
(* The fields that go with a status, under Spec *)

\* A FORFEIT match names who forfeited and when it ended; a match that is or
\* was in progress has its start time.
WellStamped(match) ==
    /\ match.status = "FORFEIT" =>
          match.forfeit_by # NONE /\ match.completed_at # NoTime
    /\ match.status \in {"IN_PROGRESS", "COMPLETED"} => match.started_at # NoTime

\* C27, as claimed: in every reachable state, whatever lifecycle operations and
\* administrative updates led to it, a FORFEIT match has forfeit_by and
\* completed_at set and an IN_PROGRESS or COMPLETED match has started_at set.
C27_StampedInEveryState ==
    \A m \in DOMAIN matches : WellStamped(matches[m])

\* C27, amended: create, start, complete and forfeit keep it: a match that is
\* new, or had the fields that go with its status before one of them, has them
\* after it.  Only the administrative update, which sets status alone, leaves a
\* match without them.
C27_LifecycleKeepsStamps ==
    [][\A m \in MatchIds :
          (/\ last'.op # "MatchService.update"
           /\ m \in DOMAIN matches'
           /\ m \in DOMAIN matches => WellStamped(matches[m]))
          => WellStamped(matches'[m])]_vars

\* A forfeit succeeded on a match that was never started, and stamped it.
C27_Witness ==
    \E m \in DOMAIN matches :
        /\ last.op = "MatchService.forfeit_match" /\ last.id = m /\ last.ret # {}
        /\ matches[m].status = "FORFEIT"
        /\ matches[m].started_at = NoTime
        /\ matches[m].completed_at # NoTime
        /\ matches[m].forfeit_by # NONE

\* C28, as claimed: in every reachable state the player recorded in forfeit_by
\* is not the one recorded in winner_id, also for a match created with the same
\* player in both slots and after administrative updates.
C28_ForfeiterNeverWinner ==
    \A m \in DOMAIN matches :
        matches[m].forfeit_by # NONE => matches[m].winner_id # matches[m].forfeit_by

\* The step is the administrative update of match m with payload d.
UpdateStep(m, d) ==
    /\ last'.op = "MatchService.update" /\ last'.id = m
    /\ UpdateMatch(m, d)

-----------------------------------------------------------------------------
(* Concurrent lifecycle calls, under SpecMatchRace *)

\* C26, as claimed: of the complete and forfeit calls that found a match
\* IN_PROGRESS at most one succeeds, and the record is never a mix of the two: COMPLETED with
\* forfeit_by set, or FORFEIT with a winner other than the opponent of the
\* player who forfeited.
C26_AtMostOneSucceeds ==
    \A m \in DOMAIN matches :
        /\ Cardinality({r \in DOMAIN inflight :
                            /\ inflight[r].match_id = m
                            /\ inflight[r].loaded # {}
                            /\ The(inflight[r].loaded).status = "IN_PROGRESS"
                            /\ inflight[r].ok}) <= 1
        /\ matches[m].status = "COMPLETED" => matches[m].forfeit_by = NONE
        /\ matches[m].status = "FORFEIT" =>
              matches[m].winner_id =
                  ForfeitAssignments(matches[m], matches[m].forfeit_by, now).winner_id

-----------------------------------------------------------------------------
(* Who sees a private tournament, under SpecView *)

\* The tournaments that are private and not organized by the caller.
Hidden(tdb, current_user) ==
    {t \in DOMAIN tdb : ~tdb[t].is_public /\ tdb[t].organizer_id # current_user}

\* The same tables with the contents of the tournaments hidden from the caller
\* blanked: what is left of them is that they exist, are private and whose
\* they are.
Masked(tdb, current_user) ==
    [t \in DOMAIN tdb |->
        IF t \in Hidden(tdb, current_user)
        THEN [tdb[t] EXCEPT !.status = "DRAFT", !.name = "cup", !.description = NONE]
        ELSE tdb[t]]

\* The response to the request recorded in a call, had it been made on tdb.
Answer(tdb, call) ==
    CASE call.op = "get_tournament" -> get_tournament(tdb, call.id, call.arg)
      [] call.op = "get_tournaments" ->
            get_tournaments(tdb, call.id.skip, call.id.limit, call.id.status,
                            call.id.search)
      [] call.op = "get_my_tournaments" ->
            get_my_tournaments(tdb, call.id.skip, call.id.limit, call.arg)

\* C30: the requests that read tournaments never hand a private tournament to a
\* player who is not its organizer: get_tournament answers 403 "Not authorized
\* to view this tournament" with no row, the list and the search hold public
\* tournaments only, the list of tournaments one organizes holds the caller's
\* own only, and the response is the one the caller would get whatever the
\* status, name and description of the tournaments hidden from that caller.
C30_PrivateNeverShown ==
    last.op \in {"get_tournament", "get_tournaments", "get_my_tournaments"} =>
        /\ (last.op = "get_tournament" /\ last.id \in Hidden(tournaments, last.arg)) =>
              /\ last.code = 403
              /\ last.detail = "Not authorized to view this tournament"
              /\ last.ret = {}
        /\ last.op = "get_tournaments" =>
              \A i \in DOMAIN last.ret : last.ret[i].tournament.is_public
        /\ last.op = "get_my_tournaments" =>
              \A i \in DOMAIN last.ret : last.ret[i].tournament.organizer_id = last.arg
        /\ last.op # "get_tournament" =>
              \A i \in DOMAIN last.ret : last.ret[i].id \notin Hidden(tournaments, last.arg)
        /\ LET a == Answer(Masked(tournaments, last.arg), last)
           IN  a.code = last.code /\ a.detail = last.detail /\ a.ret = last.ret

\* A search that matches the private tournament of somebody else, by its name
\* or its description, and a public one: the answer holds the public one.
C30_Witness ==
    /\ last.op = "get_tournaments"
    /\ Truthy(last.id.search)
    /\ \E t \in Hidden(tournaments, last.arg) :
          \/ ILike(tournaments[t].name, last.id.search)
          \/ ILike(tournaments[t].description, last.id.search)
    /\ Len(last.ret) = 1

====
